---- MODULE Spec2Model ----
(***************************************************************************)
(* Verification model of the heat-pump calculator core:                    *)
(*   - ElecCostCalc      (src/heatpump/elec_cost.py)                       *)
(*   - HomeHeatModel     (src/heatpump/home_heat_model.py)                 *)
(*   - HP_model          (src/heatpump/hp_model.py)                        *)
(*   - inputs_to_vars    (src/heatpump/ui_helper.py)                       *)
(*   - library           (src/heatpump/library.py)                         *)
(*   - page callbacks    (src/heatpump/app.py)                             *)
(*                                                                         *)
(* Python floats are carried as exact fixed-point integers.  Units:        *)
(*   kWh            1/KwhScale kWh  (0.05 kWh)                             *)
(*   $/kWh rates    cents before tax; 1e-4 $ after the (1 + sales_tax)     *)
(*                  factor, which is carried as 100 + tax percent          *)
(*   money          1e-4 $ / KwhScale (CostUnitsPerDollar per dollar)      *)
(* math.inf and math.nan are the two sentinels Inf and NaN.                *)
(***************************************************************************)
EXTENDS Integers, Sequences, FiniteSets, TLC

VARIABLES
    ecc,        \* the ElecCostCalc object: utility, sales_tax, _blocks
    ecc_args,   \* constructor arguments and locals of ElecCostCalc.__init__
    ecc_call,   \* the last monthly_cost call: arguments, loop trace, result
    df_tmy,     \* library: hourly db_temp of the city's TMY site (read-only)
    sim,        \* the HomeHeatModel object: its attributes and result tables
    sim_loop,   \* locals of the hourly loop of calculate(), one row per hour
    hpm,        \* the HP_model object: its inputs and what run() has stored
    ui,         \* the input form: its values and what inputs_to_vars returned
    lib,        \* library: the module-level tables, the clock, the threads
    app         \* the page: components, stores and fired callbacks

eccVars == <<ecc, ecc_args, ecc_call>>
simVars == <<df_tmy, sim, sim_loop>>

vars == <<ecc, ecc_args, ecc_call, df_tmy, sim, sim_loop, hpm, ui, lib, app>>

----------------------------------------------------------------------------
(* Bounds of the model *)

\* number of finite blocks that may precede the unbounded block
MaxFiniteBlocks == 2

----------------------------------------------------------------------------
(* Numbers *)

KwhScale == 20
CostUnitsPerDollar == 100 * 100 * KwhScale

Inf == 1000000000
NaN == -1000000000

Min(a, b) == IF a <= b THEN a ELSE b
Max(a, b) == IF a >= b THEN a ELSE b

RECURSIVE SumSeq(_)
SumSeq(s) == IF s = <<>> THEN 0 ELSE Head(s) + SumSeq(Tail(s))

\* utils.chg_nonnum: a nan (or anything that is not a number) becomes sub_val
chg_nonnum(val, sub_val) == IF val = NaN THEN sub_val ELSE val

\* float subtraction where the left operand may be math.inf
FSub(a, b) == IF a = Inf THEN Inf ELSE a - b

\* the factor (1. + sales_tax), in percent
OnePlusTax(sales_tax) == 100 + sales_tax

----------------------------------------------------------------------------
(* ElecCostCalc.__init__ *)

\* lines 36-42: the PCE limit and the PCE rate actually used
pce_limit_of(pce_limit) == chg_nonnum(pce_limit, Inf)

pce_adj_of(utility, pce_limit) ==
    IF pce_limit_of(pce_limit) > 0 THEN chg_nonnum(utility.PCE, 0) ELSE 0

\* line 46: no PCE block is needed when the PCE rate is zero
pce_block_added_init_always_false(pce_adj) == FALSE

pce_block_added_init(pce_adj) == (pce_adj = 0)

\* lines 53-72: the loop that builds temp_blocks; i is the index of the
\* schedule block being visited, added the flag pce_block_added
RECURSIVE temp_blocks_loop(_, _, _, _, _)
temp_blocks_loop(selected_blocks, i, added, pl, temp_blocks) ==
    IF i > Len(selected_blocks) THEN temp_blocks
    ELSE LET max_kwh == selected_blocks[i][1]
             rate    == selected_blocks[i][2]
             b_kwh   == chg_nonnum(max_kwh, Inf)
             done    == (b_kwh = Inf)
             insert  == (~added) /\ (b_kwh > pl)
             t1      == IF insert THEN Append(temp_blocks, <<pl, rate>>)
                                  ELSE temp_blocks
             added1  == added \/ insert \/ (pl = b_kwh)
             t2      == Append(t1, <<b_kwh, rate>>)
         IN  IF done THEN t2
             ELSE temp_blocks_loop(selected_blocks, i + 1, added1, pl, t2)

temp_blocks_of(utility, pce_limit) ==
    temp_blocks_loop(utility.Blocks, 1,
                     pce_block_added_init(pce_adj_of(utility, pce_limit)),
                     pce_limit_of(pce_limit), <<>>)

\* line 80: the test that decides whether a block gets the PCE credit
pce_applies_strict(max_kwh, pl) == max_kwh < pl

pce_applies(max_kwh, pl) == max_kwh <= pl

\* lines 77-84: PCE adjustment, sales tax, and upper limits turned into
\* block quantities
RECURSIVE final_blocks_loop(_, _, _, _, _, _, _)
final_blocks_loop(temp_blocks, i, prev_upper, pl, pce_adj, sales_tax, blocks) ==
    IF i > Len(temp_blocks) THEN blocks
    ELSE LET max_kwh == temp_blocks[i][1]
             rate0   == temp_blocks[i][2]
             rate1   == IF pce_applies(max_kwh, pl) THEN rate0 - pce_adj
                                                    ELSE rate0
             rate2   == rate1 * OnePlusTax(sales_tax)
         IN  final_blocks_loop(temp_blocks, i + 1, max_kwh, pl, pce_adj,
                 sales_tax,
                 Append(blocks, <<FSub(max_kwh, prev_upper), rate2>>))

\* the object left by ElecCostCalc(utility, sales_tax, pce_limit)
ElecCostCalc_init(utility, sales_tax, pce_limit) ==
    [utility   |-> utility,
     sales_tax |-> sales_tax,
     blocks    |-> final_blocks_loop(temp_blocks_of(utility, pce_limit), 1, 0,
                       pce_limit_of(pce_limit),
                       pce_adj_of(utility, pce_limit), sales_tax, <<>>)]

----------------------------------------------------------------------------
(* ElecCostCalc.monthly_cost *)

\* line 101: the 0.1 kWh at which the allocation loop stops
BreakToleranceOneKwh == KwhScale

BreakTolerance == KwhScale \div 10

\* line 98
kwh_in_block(remaining_kwh, b_kwh) == Min(remaining_kwh, b_kwh)

\* lines 97-102: the allocation loop; alloc records every kwh_in_block
RECURSIVE alloc_loop(_, _, _, _, _)
alloc_loop(blocks, i, remaining_kwh, cost, alloc) ==
    IF i > Len(blocks)
    THEN [cost |-> cost, alloc |-> alloc, remaining_kwh |-> remaining_kwh]
    ELSE LET b_kwh  == blocks[i][1]
             b_rate == blocks[i][2]
             kib    == kwh_in_block(remaining_kwh, b_kwh)
             cost1  == cost + kib * b_rate
             rem1   == remaining_kwh - kib
             alloc1 == Append(alloc, kib)
         IN  IF rem1 < BreakTolerance
             THEN [cost |-> cost1, alloc |-> alloc1, remaining_kwh |-> rem1]
             ELSE alloc_loop(blocks, i + 1, rem1, cost1, alloc1)

\* lines 91-94: customer charge and demand charge, both with sales tax
fixed_charges_no_customer(obj, kw_demand) ==
    kw_demand * chg_nonnum(obj.utility.DemandCharge, 0)
        * OnePlusTax(obj.sales_tax)

fixed_charges(obj, kw_demand) ==
    chg_nonnum(obj.utility.CustomerChg, 0) * OnePlusTax(obj.sales_tax)
        * KwhScale
    + kw_demand * chg_nonnum(obj.utility.DemandCharge, 0)
        * OnePlusTax(obj.sales_tax)

monthly_cost(obj, kwh_energy, kw_demand) ==
    alloc_loop(obj.blocks, 1, kwh_energy, fixed_charges(obj, kw_demand), <<>>)

----------------------------------------------------------------------------
(* Fixed-point arithmetic of the thermal simulation.  Units:               *)
(*   temperatures     1/TScale deg F                                       *)
(*   UA               0.189/40 Btu/hr/F, so that ua_per_ft2 is 40          *)
(*   hourly loads     one UA unit times one temperature unit,              *)
(*                    63/80000 Btu/hr; the /1e6 to MMBtu is a change of    *)
(*                    unit and is folded into the column's unit            *)
(*   COP              1e-4                                                 *)
(*   power, capacity  W and 1e-3 Btu/hr                                    *)
(*   kWh              the heat equivalent in load units (the 0.003412      *)
(*                    MMBtu per kWh is folded into the unit)               *)
(* Every float division is a floor division at these resolutions.          *)

TScale == 6
DegF(n) == n * TScale

\* floor(a * b / c) for b >= 0 and 0 < c <= 300000000, computed within
\* 32 bits: quotient and remainder of a * b by c, digit by digit of b in a
\* base small enough for (2 * base - 1) * c to stay below 2^31
MulDivBase(c) ==
    IF c <= 1000000 THEN 1024 ELSE IF c <= 60000000 THEN 16 ELSE 4

RECURSIVE MulDivQR(_, _, _)
MulDivQR(a, b, c) ==
    IF b = 0 THEN <<0, 0>>
    ELSE LET base == MulDivBase(c)
             rest == MulDivQR(a, b \div base, c)
             q2   == base * rest[1] + (b % base) * (a \div c)
             r2   == base * rest[2] + (b % base) * (a % c)
         IN  <<q2 + (r2 \div c), r2 % c>>

MulDiv(a, b, c) == IF a = 0 \/ b = 0 THEN 0 ELSE MulDivQR(a, b, c)[1]

\* floor of the square root
RECURSIVE ISqrtIn(_, _, _)
ISqrtIn(n, lo, hi) ==
    IF lo = hi THEN lo
    ELSE LET mid == (lo + hi + 1) \div 2
         IN  IF mid * mid <= n THEN ISqrtIn(n, mid, hi)
                               ELSE ISqrtIn(n, lo, mid - 1)

ISqrt(n) == ISqrtIn(n, 0, 46340)

\* insertion sort, ascending
RECURSIVE InsertSorted(_, _)
InsertSorted(x, s) ==
    IF s = <<>> THEN <<x>>
    ELSE IF x <= Head(s) THEN <<x>> \o s
         ELSE <<Head(s)>> \o InsertSorted(x, Tail(s))

RECURSIVE SortAsc(_)
SortAsc(s) == IF s = <<>> THEN <<>> ELSE InsertSorted(Head(s), SortAsc(Tail(s)))

----------------------------------------------------------------------------
(* Bounds of the climate record *)

HoursPerDay  == 2
DaysPerMonth == 1
NDays        == 2

NHours == NDays * HoursPerDay

----------------------------------------------------------------------------
(* library.heat_pump_from_id *)

\* rows of df_heatpumps used by the model: hspf in 1e-2, in_pwr_5F_max in W,
\* capacity_5F_max in Btu/hr
df_heatpumps ==
    [i \in {1, 2} |->
        IF i = 1
        THEN [hspf |-> 1133, in_pwr_5F_max |-> 958,  capacity_5F_max |-> 10000]
        ELSE [hspf |-> 1000, in_pwr_5F_max |-> 1000, capacity_5F_max |-> 5000]]

\* ids >= 0 are rows of df_heatpumps; -1 and -2 are generic units
heat_pump_from_id(hp_id) ==
    IF hp_id >= 0 THEN df_heatpumps[hp_id]
    ELSE IF hp_id = -1
         THEN [hspf |-> 1400, in_pwr_5F_max |-> 2100, capacity_5F_max |-> 16500]
         ELSE [hspf |-> 1150, in_pwr_5F_max |-> 3120, capacity_5F_max |-> 21356]

----------------------------------------------------------------------------
(* home_heat_model: temp_depression and HomeHeatModel *)

\* r_to_bedroom, in 1e-3
r_to_bedroom(doors_open) == IF doors_open THEN 424 ELSE 1420

\* temp_depression returns temp_delta * r / (r + 1/ua_per_ft2), which is
\* temp_delta * k / (k + 1) for k = r * ua_per_ft2.  ua is the argument in
\* UA units per ft2 (a multiple of 10), so k is
\* (r/1000) * (ua * 0.189/40) = (r/4) * 189 * (ua/10) * 1e-6.
\* The result is the fraction num/den, den > 0.
temp_depression(ua, balance_point, outdoor_temp, doors_open) ==
    LET temp_delta == balance_point - outdoor_temp
        k == (r_to_bedroom(doors_open) \div 4) * 189 * (ua \div 10)
    IN  [num |-> temp_delta * k, den |-> k + 1000000]

\* COP_vs_TEMP: temperatures in 1e-1 deg F, COPs in 1e-2
COP_vs_TEMP ==
    << <<-200, 66>>, <<-140, 111>>, <<-100, 141>>, <<-62, 154>>,
       <<-19, 167>>, <<20, 176>>, <<60, 189>>, <<108, 204>>, <<142, 215>>,
       <<181, 226>>, <<220, 237>>, <<257, 246>>, <<299, 250>>, <<345, 271>>,
       <<381, 288>>, <<418, 300>>, <<460, 310>>, <<500, 323>>, <<540, 332>>,
       <<580, 343>>, <<610, 351>> >>

TEMPS_FIT == [i \in 1..Len(COP_vs_TEMP) |-> COP_vs_TEMP[i][1]]
COPS_FIT  == [i \in 1..Len(COP_vs_TEMP) |-> COP_vs_TEMP[i][2]]

\* BASE_HSPF = 11.33, in 1e-2
BASE_HSPF == 1133

GARAGE_HEATING_SETPT == DegF(55)

\* np.interp(x, xp, fp): x in 1/30 deg F, xp in 1e-1 deg F, fp in 1e-2;
\* the result is in 1e-4.  Outside the table the end values are returned.
np_interp(x, xp, fp) ==
    IF x <= xp[1] * 3 THEN fp[1] * 100
    ELSE IF x >= xp[Len(xp)] * 3 THEN fp[Len(fp)] * 100
    ELSE LET i == CHOOSE k \in 1..(Len(xp) - 1) :
                      xp[k] * 3 <= x /\ x < xp[k + 1] * 3
         IN  fp[i] * 100
             + MulDiv((fp[i + 1] - fp[i]) * 100, x - xp[i] * 3,
                      (xp[i + 1] - xp[i]) * 3)

\* temperature units to the 1/30 deg F of np_interp
ToInterpX(t) == t * (30 \div TScale)

\* the calendar of the climate record (dfh.index.dayofyear, .month)
day_of_year(h) == ((h - 1) \div HoursPerDay) + 1
month(h)       == ((day_of_year(h) - 1) \div DaysPerMonth) + 1

Months == {month(h) : h \in 1..NHours}

\* x.quantile(0.2) of one day's temperatures, times 5: pandas interpolates
\* linearly between the sorted values around position 0.2 * (n - 1)
quantile_02_x5(x) ==
    LET v == SortAsc(x)
        n == Len(v)
        i == ((n - 1) \div 5) + 1
        r == (n - 1) % 5
    IN  5 * v[i] + (IF r = 0 THEN 0 ELSE r * (v[i + 1] - v[i]))

\* line 148, with >= in place of >
hp_is_running_at_cutoff(x, low_temp_cutoff) ==
    quantile_02_x5(x) >= 5 * low_temp_cutoff

\* line 148
hp_is_running(x, low_temp_cutoff) == quantile_02_x5(x) > 5 * low_temp_cutoff

\* line 149: groupby('day_of_year')['db_temp'].transform(hp_is_running)
running(tmy, low_temp_cutoff, h) ==
    LET d == day_of_year(h)
        x == [k \in 1..HoursPerDay |-> tmy[(d - 1) * HoursPerDay + k]]
    IN  hp_is_running(x, low_temp_cutoff)

\* lines 155-165: the COP of an hour, in 1e-4
cop_of(s, db_temp) ==
    LET out_t_adj  == DegF(70) - s.indoor_heat_setpoint
        cop_interp == np_interp(ToInterpX(db_temp + out_t_adj),
                                TEMPS_FIT, COPS_FIT)
        hspf       == heat_pump_from_id(s.hp_model_id).hspf
        \* (hspf / BASE_HSPF) ** 0.5, in 1e-3
        hspf_adj   == ISqrt((hspf * 1000000) \div BASE_HSPF)
    IN  MulDiv(cop_interp, hspf_adj, 1000)

\* lines 170-171, in quarters
ua_insul_adj_arr == <<5, 4, 3>>
ua_insul_adj(s) == ua_insul_adj_arr[s.insul_level]

\* line 180: 0.189 Btu/hr/F per ft2
ua_per_ft2 == 40

\* ua_true_up is carried in 1/TrueUpOne
TrueUpOne == 100

\* line 181
ua_home_of(s) ==
    MulDiv((ua_per_ft2 * ua_insul_adj(s) * s.bldg_floor_area) \div 4,
           s.ua_true_up, TrueUpOne)

\* line 182
garage_area(s) == <<0, 14 * 22, 22 * 22, 36 * 25, 48 * 28>>[s.garage_stall_count + 1]

\* line 183
ua_garage_of(s) ==
    MulDiv((ua_per_ft2 * 11 * ua_insul_adj(s) * garage_area(s)) \div 40,
           s.ua_true_up, TrueUpOne)

\* lines 193-197: heating effect 10 (home) or 5 (garage) deg F divided by
\* the insulation adjustment, then by ua_true_up
balance_point_home(s) ==
    s.indoor_heat_setpoint
        - MulDiv((DegF(10) * 4) \div ua_insul_adj(s), TrueUpOne, s.ua_true_up)

balance_point_garage(s) ==
    GARAGE_HEATING_SETPT
        - MulDiv((DegF(5) * 4) \div ua_insul_adj(s), TrueUpOne, s.ua_true_up)

\* line 203, in 1e-4
cop_5F == np_interp(ToInterpX(DegF(5)), TEMPS_FIT, COPS_FIT)

\* in_pwr_5F_max * 3412., in 1e-3 Btu/hr
in_pwr_btu(s) == heat_pump_from_id(s.hp_model_id).in_pwr_5F_max * 3412

\* line 204, in 1e-3 Btu/hr
max_from_curve(s) == MulDiv(in_pwr_btu(s), cop_5F, 10000)

\* lines 205-208, as the fraction num/den
max_capacity_true_up(s) ==
    LET capacity_5F_max == heat_pump_from_id(s.hp_model_id).capacity_5F_max * 1000
    IN  IF capacity_5F_max < max_from_curve(s)
        THEN [num |-> capacity_5F_max, den |-> max_from_curve(s)]
        ELSE [num |-> 1, den |-> 1]

\* 1e-3 Btu/hr to load units of 63/80000 Btu/hr
ToLoadUnits(mbtu) == MulDiv(mbtu, 80, 63)

\* line 231, in load units
max_hp_output_of(s, cop) ==
    LET t == max_capacity_true_up(s)
    IN  ToLoadUnits(MulDiv(MulDiv(in_pwr_btu(s), cop, 10000), t.num, t.den))

temp_depress_tolerance(s) ==
    IF s.bedroom_temp_tolerance = "low" THEN DegF(2)
    ELSE IF s.bedroom_temp_tolerance = "med" THEN DegF(5)
    ELSE DegF(10)

\* line 225
hp_off(s, is_running) == (~is_running) \/ s.no_heat_pump_use

\* line 259
limit_to_capacity_never(hp_ld, max_hp_output) == hp_ld

limit_to_capacity(hp_ld, max_hp_output) == Min(hp_ld, max_hp_output)

\* line 264: hp_ld >= max_hp_output * 0.999; for integers with
\* hp_ld <= max_hp_output this is (max_hp_output - hp_ld) * 1000 <= max_hp_output
at_max_output_exact(hp_ld, max_hp_output) == hp_ld >= max_hp_output

at_max_output(hp_ld, max_hp_output) ==
    hp_ld >= max_hp_output - (max_hp_output \div 1000)

\* lines 235-257: the load the heat pump is asked for: its share of the
\* home load, the garage when it heats it, and the rest of the home when the
\* adjacent rooms stay within the tolerated temperature depression
hp_ld_wanted(s, db_temp, home_load, garage_load) ==
    LET hp_ld1 == MulDiv(home_load, s.pct_exposed_to_hp, 100)
        hp_ld2 == hp_ld1 + (IF s.garage_heated_by_hp THEN garage_load ELSE 0)
        temp_depress == temp_depression(ua_home_of(s) \div s.bldg_floor_area,
                                        balance_point_home(s), db_temp,
                                        s.doors_open_to_adjacent)
    IN  IF temp_depress.num <= temp_depress_tolerance(s) * temp_depress.den
        THEN hp_ld2 + (home_load - hp_ld1)
        ELSE hp_ld2

\* lines 259-266: the cap, the two lists and the flag
hp_hour(is_running, cop, home_load, garage_load, max_hp_output, hp_ld3) ==
    LET hp_ld == limit_to_capacity(hp_ld3, max_hp_output)
    IN  [running |-> is_running, cop |-> cop, home_load |-> home_load,
         garage_load |-> garage_load, total_load |-> home_load + garage_load,
         in_hp_branch |-> TRUE, max_hp_output |-> max_hp_output,
         hp_ld_wanted |-> hp_ld3,
         hp_load |-> hp_ld,
         secondary_load |-> (home_load + garage_load) - hp_ld,
         at_max |-> at_max_output(hp_ld, max_hp_output)]

\* lines 224-266: the hour's loads are given to the two systems
hour_split(s, db_temp, is_running, cop, home_load, garage_load) ==
    IF hp_off(s, is_running)
    THEN [running |-> is_running, cop |-> cop, home_load |-> home_load,
          garage_load |-> garage_load, total_load |-> home_load + garage_load,
          in_hp_branch |-> FALSE, max_hp_output |-> 0, hp_ld_wanted |-> 0,
          hp_load |-> 0, secondary_load |-> home_load + garage_load,
          at_max |-> FALSE]
    ELSE hp_hour(is_running, cop, home_load, garage_load,
                 max_hp_output_of(s, cop),
                 hp_ld_wanted(s, db_temp, home_load, garage_load))

\* lines 222-223: the loads of the hour
hour_loads(s, db_temp, is_running, cop) ==
    hour_split(s, db_temp, is_running, cop,
               Max(0, balance_point_home(s) - db_temp) * ua_home_of(s),
               Max(0, balance_point_garage(s) - db_temp) * ua_garage_of(s))

\* lines 218-266: one pass of the hourly loop
hour_row(s, tmy, h) ==
    hour_loads(s, tmy[h], running(tmy, s.low_temp_cutoff, h),
               cop_of(s, tmy[h]))

\* line 275: aux_ratio = exist_kwh_per_mmbtu * 0.003412, in 1e-8 with
\* exist_kwh_per_mmbtu in 1e-2
aux_ratio_tenfold(s) == s.exist_kwh_per_mmbtu * 34120

aux_ratio(s) == s.exist_kwh_per_mmbtu * 3412

AuxOne == 100000000

\* line 276
reduce_for_aux_not(s, secondary_load) == secondary_load

reduce_for_aux(s, secondary_load) ==
    MulDiv(secondary_load, AuxOne, AuxOne + aux_ratio(s))

\* line 280: hp_load_mmbtu / cop / 0.003412
hp_kwh_of(hp_load_mmbtu, cop) == MulDiv(hp_load_mmbtu, 10000, cop)

\* lines 217-266: the loop over the first n hours, appending to the lists
RECURSIVE hourly_loop(_, _, _)
hourly_loop(s, tmy, n) ==
    IF n = 0 THEN <<>>
    ELSE Append(hourly_loop(s, tmy, n - 1), hour_row(s, tmy, n))

\* line 281: secondary_load_mmbtu / exist_heat_effic, the efficiency in percent
secondary_fuel_of(s, secondary_load_mmbtu) ==
    MulDiv(secondary_load_mmbtu, 100, s.exist_heat_effic)

\* line 282: secondary_load_mmbtu * exist_kwh_per_mmbtu, the auxiliary
\* electricity in the unit of hp_kwh (the heat equivalent of the kWh)
secondary_kwh_of(s, secondary_load_mmbtu) ==
    MulDiv(secondary_load_mmbtu, aux_ratio(s), AuxOne)

\* lines 268-292: one row of the hourly DataFrame built from the lists
df_hourly_cols(s, tmy, row, i, secondary_load_mmbtu, hp_kwh, secondary_kwh) ==
    [db_temp     |-> tmy[i],
     day_of_year |-> day_of_year(i),
     month       |-> month(i),
     running     |-> row.running,
     cop         |-> row.cop,
     hp_load_mmbtu |-> row.hp_load,
     secondary_load_mmbtu |-> secondary_load_mmbtu,
     hp_kwh      |-> hp_kwh,
     secondary_fuel_mmbtu |-> secondary_fuel_of(s, secondary_load_mmbtu),
     secondary_kwh |-> secondary_kwh,
     total_kwh   |-> hp_kwh + secondary_kwh]

df_hourly_aux(s, tmy, row, i, secondary_load_mmbtu) ==
    df_hourly_cols(s, tmy, row, i, secondary_load_mmbtu,
                   hp_kwh_of(row.hp_load, row.cop),
                   secondary_kwh_of(s, secondary_load_mmbtu))

df_hourly_row(s, tmy, row, i) ==
    df_hourly_aux(s, tmy, row, i, reduce_for_aux(s, row.secondary_load))

RECURSIVE df_hourly_of(_, _, _, _)
df_hourly_of(s, tmy, rows, n) ==
    IF n = 0 THEN <<>>
    ELSE Append(df_hourly_of(s, tmy, rows, n - 1),
                df_hourly_row(s, tmy, rows[n], n))

\* lines 296-316: groupby('month').sum() of one column, over the first n rows
RECURSIVE col_sum(_, _, _, _)
col_sum(dfh, m, col, n) ==
    IF n = 0 THEN 0
    ELSE col_sum(dfh, m, col, n - 1)
            + (IF dfh[n].month = m THEN dfh[n][col] ELSE 0)

\* lines 301-303: groupby('month')[[col]].max(), over the first n rows
RECURSIVE col_max(_, _, _, _)
col_max(dfh, m, col, n) ==
    IF n = 0 THEN 0
    ELSE Max(col_max(dfh, m, col, n - 1),
             IF dfh[n].month = m THEN dfh[n][col] ELSE 0)

\* the mean of the hourly COPs of a month
RECURSIVE hours_in(_, _, _)
hours_in(dfh, m, n) ==
    IF n = 0 THEN 0
    ELSE hours_in(dfh, m, n - 1) + (IF dfh[n].month = m THEN 1 ELSE 0)

monthly_cop_mean(dfh, m, hp_load_mmbtu, hp_kwh) ==
    col_sum(dfh, m, "cop", Len(dfh)) \div hours_in(dfh, m, Len(dfh))

\* line 310: hp_load_mmbtu / (hp_kwh * 0.003412), in 1e-4; the division of
\* the arrays gives nan for 0/0 and inf for x/0
monthly_cop(dfh, m, hp_load_mmbtu, hp_kwh) ==
    IF hp_kwh = 0 THEN (IF hp_load_mmbtu = 0 THEN NaN ELSE Inf)
    ELSE MulDiv(hp_load_mmbtu, 10000, hp_kwh)

\* lines 297-310: one row of df_monthly from its sums; the secondary fuel is
\* kept in heat units (fuel.btus is a change of unit)
df_monthly_row(dfh, m, hp_load_mmbtu, hp_kwh, secondary_fuel_mmbtu) ==
    [hp_load_mmbtu |-> hp_load_mmbtu,
     secondary_load_mmbtu |->
         col_sum(dfh, m, "secondary_load_mmbtu", Len(dfh)),
     hp_kwh |-> hp_kwh,
     secondary_fuel_mmbtu |-> secondary_fuel_mmbtu,
     secondary_kwh |-> col_sum(dfh, m, "secondary_kwh", Len(dfh)),
     total_kwh |-> col_sum(dfh, m, "total_kwh", Len(dfh)),
     hp_kw |-> col_max(dfh, m, "hp_kwh", Len(dfh)),
     secondary_kw |-> col_max(dfh, m, "secondary_kwh", Len(dfh)),
     total_kw |-> col_max(dfh, m, "total_kwh", Len(dfh)),
     secondary_fuel_units |-> secondary_fuel_mmbtu,
     cop |-> monthly_cop(dfh, m, hp_load_mmbtu, hp_kwh)]

df_monthly_of(dfh) ==
    [m \in Months |->
        df_monthly_row(dfh, m,
                       col_sum(dfh, m, "hp_load_mmbtu", Len(dfh)),
                       col_sum(dfh, m, "hp_kwh", Len(dfh)),
                       col_sum(dfh, m, "secondary_fuel_mmbtu", Len(dfh)))]

\* line 318: df_monthly.sum() of one column; the sum skips nan values
RECURSIVE month_total(_, _, _)
month_total(dfm, col, ms) ==
    IF ms = {} THEN 0
    ELSE LET m == CHOOSE k \in ms : TRUE
         IN  (IF dfm[m][col] = NaN THEN 0 ELSE dfm[m][col])
                + month_total(dfm, col, ms \ {m})

\* lines 325-327: the maximum of one column across the months
RECURSIVE month_max(_, _, _)
month_max(dfm, col, ms) ==
    IF ms = {} THEN 0
    ELSE LET m == CHOOSE k \in ms : TRUE
         IN  Max(dfm[m][col], month_max(dfm, col, ms \ {m}))

\* line 318: every column of ser_annual is first the sum of the months
annual_sums(dfm) ==
    [c \in {"hp_load_mmbtu", "secondary_load_mmbtu", "hp_kwh",
            "secondary_fuel_mmbtu", "secondary_kwh", "total_kwh", "hp_kw",
            "secondary_kw", "total_kw", "secondary_fuel_units", "cop"} |->
        month_total(dfm, c, DOMAIN dfm)]

\* lines 321-324: the seasonal COP, in 1e-4
annual_cop(tot) ==
    IF tot.hp_kwh # 0 THEN MulDiv(tot.hp_load_mmbtu, 10000, tot.hp_kwh)
    ELSE NaN

\* lines 319-327: fix the seasonal COP and the peak demand values
fix_annual(tot, dfm) ==
    [tot EXCEPT !.cop = annual_cop(tot),
                !.hp_kw = month_max(dfm, "hp_kw", DOMAIN dfm),
                !.secondary_kw = month_max(dfm, "secondary_kw", DOMAIN dfm),
                !.total_kw = month_max(dfm, "total_kw", DOMAIN dfm)]

ser_annual_of(dfm) == fix_annual(annual_sums(dfm), dfm)

\* line 217: the flag is cleared before the loop
max_hp_reached_kept(s) == s.max_hp_reached

max_hp_reached_reset(s) == FALSE

\* lines 264-266: the flag after the loop
max_hp_reached_of(rows) == \E n \in 1..Len(rows) : rows[n].at_max

\* lines 318-334: the attributes calculate() leaves on the object
calculate_results(s, rows, dfh, dfm) ==
    [obj  |-> [s EXCEPT !.calculated = TRUE,
                        !.ua_home = ua_home_of(s),
                        !.ua_garage = ua_garage_of(s),
                        !.max_hp_reached = max_hp_reached_reset(s)
                                            \/ max_hp_reached_of(rows),
                        !.df_hourly = dfh,
                        !.df_monthly = dfm,
                        !.ser_annual = ser_annual_of(dfm)],
     loop |-> rows]

\* lines 268-313: the hourly table and its monthly sums
calculate_tables(s, rows, dfh) ==
    calculate_results(s, rows, dfh, df_monthly_of(dfh))

\* lines 217-266: the lists of the hourly loop
calculate_loop(s, tmy, rows) ==
    calculate_tables(s, rows, df_hourly_of(s, tmy, rows, Len(tmy)))

\* HomeHeatModel.calculate: the object after the call and the loop's lists
calculate(s, tmy) == calculate_loop(s, tmy, hourly_loop(s, tmy, Len(tmy)))

\* HomeHeatModel.__init__: the arguments become attributes; the result
\* attributes do not exist until calculate() has run
HomeHeatModel_init(args) ==
    [hp_model_id |-> args.hp_model_id,
     exist_heat_effic |-> args.exist_heat_effic,
     exist_kwh_per_mmbtu |-> args.exist_kwh_per_mmbtu,
     low_temp_cutoff |-> args.low_temp_cutoff,
     garage_stall_count |-> args.garage_stall_count,
     garage_heated_by_hp |-> args.garage_heated_by_hp,
     bldg_floor_area |-> args.bldg_floor_area,
     indoor_heat_setpoint |-> args.indoor_heat_setpoint,
     insul_level |-> args.insul_level,
     pct_exposed_to_hp |-> args.pct_exposed_to_hp,
     doors_open_to_adjacent |-> args.doors_open_to_adjacent,
     bedroom_temp_tolerance |-> args.bedroom_temp_tolerance,
     no_heat_pump_use |-> args.no_heat_pump_use,
     ua_true_up |-> args.ua_true_up,
     calculated |-> FALSE, ua_home |-> 0, ua_garage |-> 0,
     max_hp_reached |-> FALSE, df_hourly |-> <<>>, df_monthly |-> <<>>,
     ser_annual |-> <<>>]

----------------------------------------------------------------------------
(* hp_model: HP_model.__init__ and HP_model.run                            *)
(* Fuel quantities are in thousand Btu; the fuel's Btu per unit is a       *)
(* change of unit.  Only fuels other than electricity are drawn.           *)

\* the parameters of HomeHeatModel.__init__ after self, and those of them
\* that have a default value
HomeHeatModel_params ==
    {"city_id", "hp_model_id", "exist_heat_fuel_id", "exist_heat_effic",
     "exist_kwh_per_mmbtu", "co2_lbs_per_kwh", "low_temp_cutoff",
     "garage_stall_count", "garage_heated_by_hp", "bldg_floor_area",
     "indoor_heat_setpoint", "insul_level", "pct_exposed_to_hp",
     "doors_open_to_adjacent", "bedroom_temp_tolerance",
     "no_heat_pump_use", "ua_true_up"}

HomeHeatModel_defaults == {"no_heat_pump_use", "ua_true_up"}

\* the keyword arguments of the HomeHeatModel(...) call in HP_model.run
run_sim_keywords ==
    {"city_id", "hp_model_id", "exist_heat_fuel_id", "exist_heat_effic",
     "exist_kwh_per_mmbtu", "co2_lbs_per_kwh", "low_temp_cutoff",
     "off_months", "garage_stall_count", "garage_heated_by_hp",
     "bldg_floor_area", "indoor_heat_setpoint", "insul_level",
     "pct_exposed_to_hp", "doors_open_to_adjacent", "bedroom_temp_tolerance"}

\* Python binds a call made with keywords only when every keyword is a
\* parameter and every parameter without a default is given; otherwise the
\* call raises TypeError before the function body runs
call_binds(keywords, params, defaults) ==
    /\ keywords \subseteq params
    /\ (params \ defaults) \subseteq keywords

\* HP_model.__init__: the arguments become attributes; run() has stored
\* nothing yet.  sims_created and calculate_calls count the HomeHeatModel
\* objects that run() has constructed and the calculate() calls it has made;
\* summary is the set of keys of the summary dictionary and summary_cop the
\* value under 'cop'
HP_model_init(args) ==
    [exist_fuel_use |-> args.exist_fuel_use,
     includes_dhw |-> args.includes_dhw,
     includes_dryer |-> args.includes_dryer,
     includes_cooking |-> args.includes_cooking,
     occupant_count |-> args.occupant_count,
     dhw_effic |-> args.dhw_effic,
     sim_args |-> args.sim_args,
     ran |-> FALSE, exception |-> "none", summary |-> {},
     summary_cop |-> NaN,
     fuel_other_uses |-> 0, ua_true_up |-> NaN,
     df_mo_en_base |-> <<>>,
     ann_en_base |-> <<>>, ann_en_hp |-> <<>>,
     sims_created |-> 0, calculate_calls |-> 0]

\* lines 155-158: annual fuel of the other end uses, per occupant 4.23e6 Btu
\* of hot water over the water heater's efficiency (in percent), 2.15e6 Btu
\* of drying and 0.8e6 Btu of cooking
fuel_other_uses_of(s) ==
    ((IF s.includes_dhw THEN (4230 * 100) \div s.dhw_effic ELSE 0)
        + (IF s.includes_dryer THEN 2150 ELSE 0)
        + (IF s.includes_cooking THEN 800 ELSE 0)) * s.occupant_count

\* annual_results().secondary_fuel_units, in thousand Btu
FuelUnits(ser_annual) == MulDiv(ser_annual.secondary_fuel_units, 63, 80000000)

\* a * m / c for signed numbers, rounded toward zero; nan when c is 0
FDiv(a, m, c) ==
    IF c = 0 \/ a = NaN \/ m = NaN THEN NaN
    ELSE LET abs(v) == IF v < 0 THEN -v ELSE v
             sgn(v) == IF v < 0 THEN -1 ELSE 1
         IN  sgn(a) * sgn(m) * sgn(c) * MulDiv(abs(a), abs(m), abs(c))

\* lines 195-197: the second simulation gives the slope of the fuel use
\* against the true-up factor, and the factor is stepped along it
ua_true_up_step(space_fuel_use, fuel_use1, ua1, fuel_use2) ==
    LET \* (space_fuel_use - fuel_use1) / slope
        step == FDiv(space_fuel_use - fuel_use1,
                     ua1 - TrueUpOne, fuel_use2 - fuel_use1)
    IN  IF step = NaN THEN NaN ELSE TrueUpOne + step

\* lines 185-193: the factor is first scaled by the ratio of the fuel uses
ua_true_up_scaled(sim1, tmy, space_fuel_use, fuel_use1, ua1) ==
    IF ua1 = NaN \/ ua1 <= 0 THEN NaN
    ELSE ua_true_up_step(
             space_fuel_use, fuel_use1, ua1,
             FuelUnits(calculate([sim1 EXCEPT !.ua_true_up = ua1],
                                 tmy).obj.ser_annual))

\* lines 176-185: the fuel use of the first simulation
ua_true_up_from(sim1, tmy, space_fuel_use, fuel_use1) ==
    ua_true_up_scaled(sim1, tmy, space_fuel_use, fuel_use1,
                      FDiv(space_fuel_use, TrueUpOne, fuel_use1))

\* lines 171-197: match the fuel use by the UA true-up factor
solve_ua_true_up(home, tmy, space_fuel_use) ==
    LET sim1 == calculate([home EXCEPT !.no_heat_pump_use = TRUE], tmy).obj
    IN  ua_true_up_from(sim1, tmy, space_fuel_use,
                        FuelUnits(sim1.ser_annual))

\* lines 175, 187, 210, 216: the calculate() calls of one run
calculate_calls_of(s) == IF s.exist_fuel_use = NaN THEN 2 ELSE 4

\* lines 204-227: what run() stores
run_results(s1, other, ua, base, hp) ==
    [hpm  |-> [s1 EXCEPT !.fuel_other_uses = other,
                         !.ua_true_up = ua,
                         !.df_mo_en_base = base.obj.df_monthly,
                         !.ann_en_base = base.obj.ser_annual,
                         !.ann_en_hp = hp.obj.ser_annual,
                         !.sims_created = 1,
                         !.calculate_calls = calculate_calls_of(s1),
                         !.summary = @ \cup {"cop", "max_hp_reached"},
                         !.summary_cop = hp.obj.ser_annual.cop],
     sim  |-> hp.obj,
     loop |-> hp.loop]

\* lines 214-218: the run with the heat pump
run_base_case(s1, other, ua, base, tmy) ==
    run_results(s1, other, ua, base,
                calculate([base.obj EXCEPT !.no_heat_pump_use = FALSE], tmy))

\* lines 204-212: the true-up factor is set and the base case is run
run_calibrated(s1, home, other, ua, tmy) ==
    IF ua = NaN
    THEN [hpm  |-> [s1 EXCEPT !.fuel_other_uses = other,
                              !.df_mo_en_base = NaN,
                              !.ann_en_base = NaN,
                              !.ann_en_hp = NaN,
                              !.sims_created = 1,
                              !.calculate_calls = calculate_calls_of(s1),
                              !.summary = @ \cup {"cop", "max_hp_reached"}],
          sim  |-> [home EXCEPT !.ua_true_up = NaN,
                                !.calculated = TRUE,
                                !.ser_annual = NaN],
          loop |-> <<>>]
    ELSE run_base_case(s1, other, ua,
                       calculate([home EXCEPT !.no_heat_pump_use = TRUE,
                                              !.ua_true_up = ua], tmy),
                       tmy)

\* lines 154-200: the other end uses and the calibration
run_with(s, s1, home, other, tmy) ==
    run_calibrated(s1, home, other,
                   IF s.exist_fuel_use = NaN THEN TrueUpOne
                   ELSE solve_ua_true_up(home, tmy, s.exist_fuel_use - other),
                   tmy)

\* HP_model.run: the HP_model object, the simulation object and the loop
\* locals after the call.  The summary is started, then the simulation
\* object is constructed; when that call does not bind, run() ends there
\* with the TypeError.
run(s, old_sim, old_loop, tmy) ==
    LET s1 == [s EXCEPT !.ran = TRUE, !.summary = {"fuel_unit", "fuel_desc"}]
    IN  IF ~call_binds(run_sim_keywords, HomeHeatModel_params,
                       HomeHeatModel_defaults)
        THEN [hpm  |-> [s1 EXCEPT !.exception = "TypeError"],
              sim  |-> old_sim,
              loop |-> old_loop]
        ELSE run_with(s, s1,
                      HomeHeatModel_init(
                          [s.sim_args EXCEPT !.no_heat_pump_use = FALSE,
                                             !.ua_true_up = TrueUpOne]),
                      fuel_other_uses_of(s), tmy)

----------------------------------------------------------------------------
(* library (src/heatpump/library.py): the module-level tables and their    *)
(* refresh.                                                                *)
(*                                                                         *)
(* lib.now is the time in hours since the module was imported.  A table is *)
(* carried as the time of the download that made it, which names the       *)
(* version of the dataset it holds; df_fuel also carries whether its btus  *)
(* column has been made float and its effic_choices column has been made a *)
(* list.  Each request is served by a thread; pc is the statement the      *)
(* thread is at and reads what its lookups have returned.                  *)

\* line 30, hours
LIB_TIMEOUT == 12

\* the last hour of the clock
MaxHours == 26

\* the threads that serve requests
Threads == {1, 2}

\* df_fuel right after read_excel (line 230) of the download made at time v
fuel_read(v) == [version |-> v, btus_float |-> FALSE, effic_list |-> FALSE]

NoReads == [city |-> -1, hp |-> -1, fuel |-> <<>>]

\* the module after import: line 251 has run refresh_data() once
library_imported ==
    [now |-> 0, last_lib_download_ts |-> 0, loads |-> 1,
     df_tmy_meta |-> 0, df_city |-> 0, df_util |-> 0, df_heatpumps |-> 0,
     df_fuel |-> [version |-> 0, btus_float |-> TRUE, effic_list |-> TRUE],
     pc |-> [t \in Threads |-> "idle"],
     reads |-> [t \in Threads |-> NoReads]]

\* line 129: the tables are refreshed when the last download is older than
\* LIB_TIMEOUT hours
refresh_due_never(l) == FALSE

refresh_due(l) == l.now - l.last_lib_download_ts > LIB_TIMEOUT

\* the statements of refresh_data in order (lines 207-235), then the lookup
\* of heat_pump_from_id (line 133)
refresh_steps ==
    <<"ts", "df_tmy_meta", "df_city", "df_util", "df_heatpumps", "df_fuel",
      "btus", "effic_choices", "lookup">>

next_step(step) ==
    LET i == CHOOSE k \in 1..Len(refresh_steps) : refresh_steps[k] = step
    IN  refresh_steps[i + 1]

\* one statement of refresh_data
refresh_statement(l, step) ==
    CASE step = "ts" ->
            [l EXCEPT !.last_lib_download_ts = l.now, !.loads = @ + 1]
      [] step = "df_tmy_meta"  -> [l EXCEPT !.df_tmy_meta = l.now]
      [] step = "df_city"      -> [l EXCEPT !.df_city = l.now]
      [] step = "df_util"      -> [l EXCEPT !.df_util = l.now]
      [] step = "df_heatpumps" -> [l EXCEPT !.df_heatpumps = l.now]
      [] step = "df_fuel"      -> [l EXCEPT !.df_fuel = fuel_read(l.now)]
      [] step = "btus"         -> [l EXCEPT !.df_fuel.btus_float = TRUE]
      [] step = "effic_choices" -> [l EXCEPT !.df_fuel.effic_list = TRUE]

----------------------------------------------------------------------------
(* Inputs of the billing calculator *)

Kwh(n) == n * KwhScale

FiniteLimits == {Kwh(300), Kwh(750)}
BlockRates   == {20, 30}

FiniteBlocks == FiniteLimits \X BlockRates

\* schedules: finite blocks, then the unbounded block (nan limit), then
\* possibly one more block that the constructor never reads
Schedules ==
    LET prefixes == UNION {[1..n -> FiniteBlocks] : n \in 0..MaxFiniteBlocks}
        tails    == {<< <<NaN, 20>> >>, << <<NaN, 30>> >>,
                     << <<NaN, 30>>, <<Kwh(750), 20>> >>}
    IN  {p \o t : p \in prefixes, t \in tails}

\* customer charge in $ 1e-2 and demand charge in $ 1e-2 per kW
UtilityCharges == {<<NaN, 500>>, <<1000, 0>>}

Utilities ==
    {[Blocks |-> b, PCE |-> p, CustomerChg |-> c[1], DemandCharge |-> c[2]] :
        b \in Schedules, p \in {NaN, 0, 10}, c \in UtilityCharges}

SalesTaxes == {0, 5}
PceLimits  == {NaN, Inf, 0, Kwh(300), Kwh(500), Kwh(750)}

KwhInputs  == {0, 1, Kwh(300), Kwh(500), Kwh(500) + 1, Kwh(750) + 10, Kwh(1000)}

\* the calls of monthly_cost: kwh_energy and kw_demand
Calls == {<<k, 0>> : k \in KwhInputs}
            \cup {<<Kwh(500) + 1, Kwh(2)>>, <<Kwh(1000), Kwh(2)>>}

NoCall == [called |-> FALSE, kwh_energy |-> 0, kw_demand |-> 0,
           alloc |-> <<>>, remaining_kwh |-> 0, cost |-> 0]

----------------------------------------------------------------------------
(* Inputs of the thermal simulation *)

\* one day of the climate record: the first hour at temperature a, the
\* other hours at temperature b
DayProfile(a, b) == [k \in 1..HoursPerDay |-> IF k = 1 THEN a ELSE b]

DayProfiles ==
    {DayProfile(DegF(5), DegF(5)), DayProfile(DegF(20), DegF(50)),
     DayProfile(DegF(-10), DegF(50))}

RECURSIVE Flatten(_)
Flatten(days) == IF days = <<>> THEN <<>> ELSE Head(days) \o Flatten(Tail(days))

Climates == {Flatten(c) : c \in [1..NDays -> DayProfiles]}

\* garage stalls, garage on the heat pump, share of the home exposed to the
\* indoor units, doors open, bedroom temperature tolerance
Layouts == {<<0, FALSE, 100, TRUE, "high">>, <<1, TRUE, 50, TRUE, "med">>,
            <<1, FALSE, 50, FALSE, "low">>, <<0, FALSE, 0, FALSE, "high">>}

SimArgs ==
    {[hp_model_id |-> hp, exist_kwh_per_mmbtu |-> aux,
      low_temp_cutoff |-> DegF(5),
      garage_stall_count |-> y[1], garage_heated_by_hp |-> y[2],
      bldg_floor_area |-> 1000, indoor_heat_setpoint |-> DegF(70),
      insul_level |-> il, pct_exposed_to_hp |-> y[3],
      doors_open_to_adjacent |-> y[4], bedroom_temp_tolerance |-> y[5],
      exist_heat_effic |-> 80,
      no_heat_pump_use |-> nhp, ua_true_up |-> tu * TrueUpOne] :
        hp \in {-1, 1, 2}, aux \in {0, 400}, y \in Layouts,
        il \in {1, 2, 3}, nhp \in BOOLEAN, tu \in {1, 2}}

DefaultSimArgs ==
    [hp_model_id |-> -1, exist_kwh_per_mmbtu |-> 400,
     low_temp_cutoff |-> DegF(5),
     garage_stall_count |-> 0, garage_heated_by_hp |-> FALSE,
     bldg_floor_area |-> 1000, indoor_heat_setpoint |-> DegF(70),
     insul_level |-> 2, pct_exposed_to_hp |-> 100,
     doors_open_to_adjacent |-> TRUE, bedroom_temp_tolerance |-> "med",
     exist_heat_effic |-> 80,
     no_heat_pump_use |-> FALSE, ua_true_up |-> TrueUpOne]

DefaultUtility ==
    [Blocks |-> << <<NaN, 20>> >>, PCE |-> NaN, CustomerChg |-> NaN,
     DemandCharge |-> NaN]

\* the billing calculator is not used
NoBilling ==
    /\ ecc = ElecCostCalc_init(DefaultUtility, 0, 0)
    /\ ecc_args = [pce_limit |-> 0,
                   temp_blocks |-> temp_blocks_of(DefaultUtility, 0)]
    /\ ecc_call = NoCall

\* no simulation object has been made
NoSimulation ==
    /\ df_tmy = Flatten([d \in 1..NDays |-> DayProfile(DegF(20), DegF(20))])
    /\ sim = HomeHeatModel_init(DefaultSimArgs)
    /\ sim_loop = <<>>

\* inputs of HP_model: annual fuel use (None is nan), the other end uses of
\* the fuel, the occupants, and the home
HpmArgs ==
    {[exist_fuel_use |-> f, includes_dhw |-> dhw, includes_dryer |-> dry,
      includes_cooking |-> ck, occupant_count |-> n, dhw_effic |-> 60,
      sim_args |-> [DefaultSimArgs EXCEPT !.insul_level = il]] :
        f \in {NaN, 20000, 40000}, dhw \in BOOLEAN, dry \in BOOLEAN,
        ck \in BOOLEAN, n \in {1, 3}, il \in {1, 2, 3}}

DefaultHpmArgs ==
    [exist_fuel_use |-> NaN, includes_dhw |-> FALSE, includes_dryer |-> FALSE,
     includes_cooking |-> FALSE, occupant_count |-> 1, dhw_effic |-> 60,
     sim_args |-> DefaultSimArgs]

\* no HP_model run is under way
NoProject == hpm = HP_model_init(DefaultHpmArgs)

\* the form has not been evaluated
NoInputs ==
    ui = [input_vals |-> <<>>, called |-> FALSE, errors |-> <<>>,
          vars |-> <<>>, extras |-> <<>>]

\* the library is as imported and no request is being served
NoLibrary == lib = library_imported

\* the page is not open
NoApp == app = <<>>

----------------------------------------------------------------------------
(* Specification of the billing calculator *)

InitElec ==
    \E u \in Utilities, t \in SalesTaxes, l \in PceLimits :
        /\ ecc = ElecCostCalc_init(u, t, l)
        /\ ecc_args = [pce_limit   |-> l,
                       temp_blocks |-> temp_blocks_of(u, l)]
        /\ ecc_call = NoCall
        /\ NoSimulation
        /\ NoProject
        /\ NoInputs
    /\ NoLibrary
    /\ NoApp

MonthlyCost ==
    \E c \in Calls :
        LET kwh_energy == c[1]
            kw_demand  == c[2]
            r == monthly_cost(ecc, kwh_energy, kw_demand)
        IN  /\ ecc_call' = [called |-> TRUE, kwh_energy |-> kwh_energy,
                            kw_demand |-> kw_demand, alloc |-> r.alloc,
                            remaining_kwh |-> r.remaining_kwh,
                            cost |-> r.cost]
            /\ UNCHANGED <<ecc, ecc_args>>
            /\ UNCHANGED simVars
            /\ UNCHANGED <<hpm, ui, lib, app>>

NextElec == MonthlyCost

SpecElec == InitElec /\ [][NextElec]_vars

----------------------------------------------------------------------------
(* Specification of the thermal simulation *)

InitHeat ==
    /\ NoBilling
    /\ df_tmy \in Climates
    /\ sim \in {HomeHeatModel_init(a) : a \in SimArgs}
    /\ sim_loop = <<>>
    /\ NoProject
    /\ NoInputs
    /\ NoLibrary
    /\ NoApp

Calculate ==
    LET r == calculate(sim, df_tmy)
    IN  /\ sim' = r.obj
        /\ sim_loop' = r.loop
        /\ UNCHANGED df_tmy
        /\ UNCHANGED eccVars
        /\ UNCHANGED <<hpm, ui, lib, app>>

NextHeat == Calculate

SpecHeat == InitHeat /\ [][NextHeat]_vars

----------------------------------------------------------------------------
(* Specification of a reused simulation object: HP_model.run keeps one     *)
(* HomeHeatModel and changes its no_heat_pump_use and ua_true_up           *)
(* attributes between the calculate() calls (hp_model.py lines 174-216)    *)

\* homes of the reused object, as constructed by run()
ReuseArgs ==
    {a \in SimArgs : /\ a.hp_model_id = 1
                     /\ a.exist_kwh_per_mmbtu = 400
                     /\ a.insul_level \in {1, 3}
                     /\ ~a.no_heat_pump_use
                     /\ a.ua_true_up = TrueUpOne}

\* climates whose first day has a cold night and a mild afternoon
ReuseClimates == {c \in Climates : c[1] = DegF(-10)}

InitReuse ==
    /\ NoBilling
    /\ df_tmy \in ReuseClimates
    /\ sim \in {HomeHeatModel_init(a) : a \in ReuseArgs}
    /\ sim_loop = <<>>
    /\ NoProject
    /\ NoInputs
    /\ NoLibrary
    /\ NoApp

\* hp_model.py lines 174, 209, 215: sim.no_heat_pump_use = ...
SetNoHeatPumpUse ==
    \E v \in BOOLEAN :
        /\ sim' = [sim EXCEPT !.no_heat_pump_use = v]
        /\ UNCHANGED <<df_tmy, sim_loop>>
        /\ UNCHANGED eccVars
        /\ UNCHANGED <<hpm, ui, lib, app>>

\* hp_model.py lines 186, 204: sim.ua_true_up = ...
SetUaTrueUp ==
    \E tu \in {1, 2} :
        /\ sim' = [sim EXCEPT !.ua_true_up = tu * TrueUpOne]
        /\ UNCHANGED <<df_tmy, sim_loop>>
        /\ UNCHANGED eccVars
        /\ UNCHANGED <<hpm, ui, lib, app>>

NextReuse == Calculate \/ SetNoHeatPumpUse \/ SetUaTrueUp

SpecReuse == InitReuse /\ [][NextReuse]_vars

----------------------------------------------------------------------------
(* Specification of a heat pump project: HP_model(...) then run() *)

InitRun ==
    /\ NoBilling
    /\ NoSimulation
    /\ hpm \in {HP_model_init(a) : a \in HpmArgs}
    /\ NoInputs
    /\ NoLibrary
    /\ NoApp

Run ==
    LET r == run(hpm, sim, sim_loop, df_tmy)
    IN  /\ hpm' = r.hpm
        /\ sim' = r.sim
        /\ sim_loop' = r.loop
        /\ UNCHANGED df_tmy
        /\ UNCHANGED eccVars
        /\ UNCHANGED <<ui, lib, app>>

NextRun == Run

SpecRun == InitRun /\ [][NextRun]_vars

----------------------------------------------------------------------------
(* HP_model.calc_cash_flow (src/heatpump/hp_model.py)                      *)
(*                                                                         *)
(* Units of the economic analysis:                                         *)
(*   money            mills (1/MillsPerDollar $)                           *)
(*   rates            1/RateDen (5 % steps); pct_financed in percent       *)
(*   escalation and   1/FactorOne, FactorOne = RateDen^MaxLife, so that    *)
(*   discount factors every power (1 + rate)^n, n <= MaxLife, is exact     *)
(*   unit prices      mills per unit, rounded toward zero                  *)
(*   irr              1e-4                                                 *)
(* -math.inf is the sentinel 1 - Inf.                                      *)

\* longest heat pump life and loan term, in years
MaxLife == 3

RateDen == 20
MillsPerDollar == 1000
Usd(n) == n * MillsPerDollar

RECURSIVE Pow(_, _)
Pow(b, n) == IF n = 0 THEN 1 ELSE b * Pow(b, n - 1)

FactorOne == Pow(RateDen, MaxLife)

\* the float 1 + rate
OnePlus(rate) == (FactorOne \div RateDen) * (RateDen + rate)

\* (numpy.ones(n) * v).cumprod()
RECURSIVE cumprod(_, _)
cumprod(n, v) ==
    IF n = 0 THEN <<>>
    ELSE IF n = 1 THEN <<v>>
    ELSE Append(cumprod(n - 1, v),
                MulDiv(cumprod(n - 1, v)[n - 1], v, FactorOne))

\* a pattern that escalates from year 0 on: year 1 is already 1 + esc
make_pattern_from_year_one(esc, life) ==
    <<0>> \o cumprod(life, OnePlus(esc))

\* lines 29-34: escalation multipliers of the years 0..life; element n + 1
\* of the sequence is year n
make_pattern(esc, life) ==
    <<0, FactorOne>> \o cumprod(life - 1, OnePlus(esc))

\* numpy.pmt(rate, nper, pv) with fv = 0 and payments at the end of the
\* period: the size of the payment pv * rate * (1 + rate)^nper /
\* ((1 + rate)^nper - 1), or pv / nper at rate 0, as quotient and remainder
np_pmt_size(rate, nper, pv) ==
    IF rate = 0 THEN <<pv \div nper, pv % nper>>
    ELSE MulDivQR(pv * rate, Pow(RateDen + rate, nper),
                  RateDen * (Pow(RateDen + rate, nper) - Pow(RateDen, nper)))

\* the test loan_pmt < 0
pmt_below_zero(size) ==
    \/ size[1] > 0
    \/ size[2] > 0

\* line 370: loan_pmt < -0.01, decided on the exact payment
pmt_below_minus_cent(size) ==
    \/ size[1] > MillsPerDollar \div 100
    \/ size[1] = MillsPerDollar \div 100 /\ size[2] > 0

\* an initial cost that ignores the financed share
initial_cost_full(s) ==
    [i \in 1..(s.hp_life + 1) |->
        IF i = 1 THEN s.rebate_dol - s.capital_cost ELSE 0]

\* lines 364-368
initial_cost_of(s) ==
    [i \in 1..(s.hp_life + 1) |->
        IF i = 1
        THEN s.rebate_dol - MulDiv(s.capital_cost, 100 - s.pct_financed, 100)
        ELSE 0]

\* lines 369-374: the payment of the financed amount is an outflow; the
\* list is [0.0] + [loan_pmt] * loan_term + [0.0] * (hp_life - loan_term),
\* where a list times a negative count is empty; the scalar 0.0 of line
\* 374 is carried as the hp_life + 1 zeros it is broadcast to
loan_cost_of(s) ==
    LET size == np_pmt_size(s.loan_interest, s.loan_term,
                            MulDiv(s.capital_cost, s.pct_financed, 100))
    IN  IF pmt_below_minus_cent(size)
        THEN <<0>> \o [i \in 1..s.loan_term |-> 0 - size[1]]
                   \o [i \in 1..(s.hp_life - s.loan_term) |-> 0]
        ELSE [i \in 1..(s.hp_life + 1) |-> 0]

\* lines 375-377: -delta * make_pattern(rate, hp_life)
escalated(delta, rate, life) ==
    [i \in 1..(life + 1) |->
        MulDiv(0 - delta, make_pattern(rate, life)[i], FactorOne)]

\* discount factors without the leading 1.0: year 0 is discounted too
disc_factor_from_year_zero(s) ==
    cumprod(s.hp_life + 1, OnePlus(s.discount_rate))

\* lines 381-382
disc_factor_of(s) ==
    <<FactorOne>> \o cumprod(s.hp_life, OnePlus(s.discount_rate))

\* numpy.npv(rate, values): (values / (1 + rate) ** arange(len)).sum()
np_npv(rate, values) ==
    SumSeq([i \in 1..Len(values) |->
               MulDiv(values[i], FactorOne,
                      Pow(RateDen + rate, i - 1)
                          * Pow(RateDen, MaxLife - (i - 1)))])

\* numpy.irr(values), the roots: the positive real roots x of the
\* polynomial sum values[k] * x^k are the discount factors 1 / (1 + rate)
\* that zero the series (numpy.roots of an all-zero series has none).  The
\* polynomial is evaluated exactly at the points x = j / grid, j in
\* 1..points; a root is at a point where it is zero or between two points
\* where its sign differs, below the first point when the sign near 0 (of
\* the lowest non-zero coefficient) differs, and beyond the last point when
\* the sign at infinity (of the highest non-zero coefficient) differs.
\* Each root is given as its rate 1 / x - 1.
irr_rates(values) ==
    LET grid == 2
        points == 4
        sign(v) == IF v > 0 THEN 1 ELSE IF v < 0 THEN -1 ELSE 0
        at(j) == SumSeq([i \in 1..Len(values) |->
                     values[i] * Pow(j, i - 1) * Pow(grid, Len(values) - i)])
        nz == {i \in 1..Len(values) : values[i] # 0}
        lowest == CHOOSE i \in nz : \A k \in nz : i <= k
        highest == CHOOSE i \in nz : \A k \in nz : i >= k
    IN  IF nz = {} THEN {}
        ELSE {(10000 * grid) \div j - 10000 :
                 j \in {k \in 1..points : at(k) = 0}}
             \cup {(20000 * grid) \div (2 * j + 1) - 10000 :
                 j \in {k \in 1..(points - 1) :
                           sign(at(k)) * sign(at(k + 1)) = -1}}
             \cup (IF sign(values[lowest]) * sign(at(1)) = -1
                   THEN {10000 * (2 * grid - 1)} ELSE {})
             \cup (IF sign(values[highest]) * sign(at(points)) = -1
                   THEN {(10000 * grid) \div (2 * points) - 10000} ELSE {})

\* an irr that is 0 when the series has no root
np_irr_or_zero(values) ==
    LET abs(v) == IF v < 0 THEN 0 - v ELSE v
    IN  IF irr_rates(values) = {} THEN 0
        ELSE CHOOSE r \in irr_rates(values) : \A q \in irr_rates(values) :
                 abs(r) < abs(q) \/ (abs(r) = abs(q) /\ r >= q)

\* numpy.irr(values): nan when there is no positive real root, else the
\* rate of smallest magnitude
np_irr(values) ==
    LET abs(v) == IF v < 0 THEN 0 - v ELSE v
    IN  IF irr_rates(values) = {} THEN NaN
        ELSE CHOOSE r \in irr_rates(values) : \A q \in irr_rates(values) :
                 abs(r) < abs(q) \/ (abs(r) = abs(q) /\ r >= q)

\* float64 division: x / 0 is nan for x = 0 and an infinity otherwise
np_divide(a, c) ==
    IF c = 0 THEN (IF a = 0 THEN NaN ELSE IF a > 0 THEN Inf ELSE 1 - Inf)
    ELSE FDiv(a, 1, c)

\* lines 361-362: DataFrame.sum() of a monthly cost table
ann_sum(df) ==
    [c \in {"elec_kwh", "elec_dol", "secondary_fuel_units",
            "secondary_fuel_dol"} |->
        SumSeq([m \in 1..Len(df) |-> df[m][c]])]

\* lines 348-414; adding arrays of different lengths at line 378 raises
\* ValueError
calc_cash_flow(s) ==
    LET ann_base == ann_sum(s.df_mo_dol_base)
        ann_hp == ann_sum(s.df_mo_dol_hp)
        ann_chg == [c \in DOMAIN ann_hp |-> ann_hp[c] - ann_base[c]]
        initial_cost == initial_cost_of(s)
        loan_cost == loan_cost_of(s)
        op_cost == escalated(s.op_cost_chg, s.inflation_rate, s.hp_life)
        fuel_cost == escalated(ann_chg.secondary_fuel_dol, s.fuel_esc_rate,
                               s.hp_life)
        elec_cost == escalated(ann_chg.elec_dol, s.elec_esc_rate, s.hp_life)
        cash_flow == [i \in 1..(s.hp_life + 1) |->
                         initial_cost[i] + loan_cost[i] + op_cost[i]
                             + fuel_cost[i] + elec_cost[i]]
        disc_factor == disc_factor_of(s)
        disc_cash_flow == [i \in 1..(s.hp_life + 1) |->
                              MulDiv(cash_flow[i], FactorOne, disc_factor[i])]
    IN  IF Len(loan_cost) # s.hp_life + 1
        THEN [s EXCEPT !.called = TRUE, !.exception = "ValueError"]
        ELSE [s EXCEPT
                 !.called = TRUE,
                 !.df_cash_flow =
                     [initial_cost |-> initial_cost,
                      loan_cost |-> loan_cost,
                      op_cost |-> op_cost,
                      fuel_cost |-> fuel_cost,
                      elec_cost |-> elec_cost,
                      cash_flow |-> cash_flow,
                      cum_disc_cash_flow |->
                          [i \in 1..(s.hp_life + 1) |->
                              SumSeq(SubSeq(disc_cash_flow, 1, i))]],
                 !.econ =
                     [irr |-> np_irr(cash_flow),
                      npv |-> np_npv(s.discount_rate, cash_flow),
                      fuel_use_base |-> ann_base.secondary_fuel_units,
                      fuel_use_hp |-> ann_hp.secondary_fuel_units,
                      fuel_use_chg |-> ann_chg.secondary_fuel_units,
                      fuel_price_incremental |->
                          IF ann_chg.secondary_fuel_units # 0
                          THEN np_divide(ann_chg.secondary_fuel_dol,
                                         ann_chg.secondary_fuel_units)
                          ELSE NaN,
                      elec_use_base |-> ann_base.elec_kwh,
                      elec_use_hp |-> ann_hp.elec_kwh,
                      elec_use_chg |-> ann_chg.elec_kwh,
                      elec_rate_avg_base |->
                          np_divide(ann_base.elec_dol, ann_base.elec_kwh),
                      elec_rate_avg_hp |->
                          np_divide(ann_hp.elec_dol, ann_hp.elec_kwh),
                      elec_rate_incremental |->
                          np_divide(ann_chg.elec_dol, ann_chg.elec_kwh)]]

----------------------------------------------------------------------------
(* Inputs of the economic analysis *)

MonthDol(kwh, dol, units, fuel_dol) ==
    [elec_kwh |-> kwh, elec_dol |-> dol, secondary_fuel_units |-> units,
     secondary_fuel_dol |-> fuel_dol]

\* two months of the base case: electricity at $0.20 per kWh up to 500 kWh a
\* month and $0.25 above, fuel at $3 a unit
DfMoDolBase ==
    << MonthDol(600, Usd(125), 80, Usd(240)),
       MonthDol(400, Usd(80), 20, Usd(60)) >>

\* the same two months with the heat pump: it saves money; it never runs;
\* it costs more than the fuel it saves; it uses in one month the kWh it
\* saves in the other, across the 500 kWh block boundary
DfMoDolHp ==
    { << MonthDol(900, Usd(200), 30, Usd(90)),
         MonthDol(500, Usd(100), 0, 0) >>,
      DfMoDolBase,
      << MonthDol(1500, Usd(350), 60, Usd(180)),
         MonthDol(400, Usd(80), 20, Usd(60)) >>,
      << MonthDol(700, Usd(150), 40, Usd(120)),
         MonthDol(300, Usd(60), 20, Usd(60)) >> }

\* the HP_model objects for which calc_monthly_cash() has returned
HP_model_with_costs ==
    [hp_life : 1..MaxLife, loan_term : 1..MaxLife,
     capital_cost : {Usd(1), Usd(400)}, rebate_dol : {0, Usd(50)},
     pct_financed : {0, 2, 100}, loan_interest : {0, 2},
     op_cost_chg : {0, Usd(20)}, inflation_rate : {1},
     fuel_esc_rate : {0, 2}, elec_esc_rate : {1}, discount_rate : {1, 2},
     df_mo_dol_base : {DfMoDolBase}, df_mo_dol_hp : DfMoDolHp,
     called : {FALSE}, exception : {"none"}, df_cash_flow : {<<>>},
     econ : {<<>>}]

----------------------------------------------------------------------------
(* Specification of the economic analysis: calc_cash_flow() on a project   *)
(* whose monthly cost tables are made                                      *)

InitCash ==
    /\ NoBilling
    /\ NoSimulation
    /\ hpm \in HP_model_with_costs
    /\ NoInputs
    /\ NoLibrary
    /\ NoApp

CalcCashFlow ==
    /\ hpm' = calc_cash_flow(hpm)
    /\ UNCHANGED simVars
    /\ UNCHANGED eccVars
    /\ UNCHANGED <<ui, lib, app>>

NextCash == CalcCashFlow

SpecCash == InitCash /\ [][NextCash]_vars

----------------------------------------------------------------------------
(* HP_model.calc_monthly_cash (src/heatpump/hp_model.py)                   *)
(*                                                                         *)
(* The monthly tables have twelve rows.  kWh and kW are in 1/KwhScale,     *)
(* money in 1/CostUnitsPerDollar $, fuel in 1/100 unit and the fuel price  *)
(* in cents per unit.  Only fuels other than electricity are drawn, so the *)
(* electric-heat branches (lines 279-302, 318-321, 340-343) are not taken. *)

\* lines 19-21
DAYS_IN_MONTH == <<31, 28, 31, 30, 31, 30, 31, 31, 30, 31, 30, 31>>

\* floor of n / d
Quot(n, d) == IF d > 0 THEN n \div d ELSE (0 - n) \div (0 - d)

\* line 268: mult, carried as the fraction <<numerator, denominator>>
pat_use_mult(s) ==
    <<s.elec_use_jan - s.elec_use_may,
      s.city.avg_elec_usage[1] - s.city.avg_elec_usage[5]>>

\* line 269: mult * pat_use, the numerators over the denominator of mult
pat_use_scaled(s, mult) ==
    [i \in 1..12 |-> mult[1] * s.city.avg_elec_usage[i]]

\* line 270: the amount added to every month, over the same denominator
pat_use_offset_none(s, mult, scaled) == 0

pat_use_offset(s, mult, scaled) == s.elec_use_jan * mult[2] - scaled[1]

\* lines 267-273: the base case electricity use of the twelve months.  A
\* pattern with equal January and May values divides by zero: mult is inf
\* or nan, and inf - inf makes every month nan
base_elec_shifted(mult, scaled, offset) ==
    [i \in 1..12 |->
        IF mult[2] = 0 THEN NaN ELSE Quot(scaled[i] + offset, mult[2])]

base_elec_scaled(s, mult, scaled) ==
    base_elec_shifted(mult, scaled, pat_use_offset(s, mult, scaled))

base_elec_mult(s, mult) == base_elec_scaled(s, mult, pat_use_scaled(s, mult))

base_elec_kwh(s) == base_elec_mult(s, pat_use_mult(s))

\* line 277: a load factor of 0.4
base_elec_kw(elec_kwh, i) == FDiv(elec_kwh, 10, DAYS_IN_MONTH[i] * 24 * 4)

\* lines 307-309: cost_func applied to one row; a nan use gives a nan cost
cost_func(elec_cost_calc, elec_kwh, elec_kw) ==
    IF elec_kwh = NaN \/ elec_kw = NaN THEN NaN
    ELSE monthly_cost(elec_cost_calc, elec_kwh, elec_kw).cost

\* lines 315, 337: the fuel of the space heating and of the other end uses
fuel_units_of(s, df_mo_en, i) ==
    df_mo_en[i].secondary_fuel_units + (s.fuel_other_uses \div 12)

\* lines 317, 339: units * exist_unit_fuel_cost * (1. + sales_tax)
fuel_dol_of(s, units) ==
    MulDiv(units * s.exist_unit_fuel_cost, OnePlusTax(s.sales_tax), 5)

\* float addition, nan when a term is nan
FAdd(a, b) == IF a = NaN \/ b = NaN THEN NaN ELSE a + b

\* one row of df_mo_dol_base or df_mo_dol_hp
df_mo_dol_row(elec_kwh, elec_kw, elec_dol, units, fuel_dol) ==
    [elec_kwh |-> elec_kwh, elec_kw |-> elec_kw, elec_dol |-> elec_dol,
     secondary_fuel_units |-> units, secondary_fuel_dol |-> fuel_dol,
     total_dol |-> FAdd(elec_dol, fuel_dol)]

df_mo_dol_of(s, elec_cost_calc, df_mo_en, i, elec_kwh, elec_kw) ==
    df_mo_dol_row(elec_kwh, elec_kw,
                  cost_func(elec_cost_calc, elec_kwh, elec_kw),
                  fuel_units_of(s, df_mo_en, i),
                  fuel_dol_of(s, fuel_units_of(s, df_mo_en, i)))

\* lines 305-346: the two cost tables from the base case electricity
monthly_cash_tables(s, elec_cost_calc, elec_kwh) ==
    [s EXCEPT
        !.called = TRUE,
        !.df_mo_dol_base =
            [i \in 1..12 |->
                df_mo_dol_of(s, elec_cost_calc, s.df_mo_en_base, i,
                             elec_kwh[i], base_elec_kw(elec_kwh[i], i))],
        !.df_mo_dol_hp =
            [i \in 1..12 |->
                df_mo_dol_of(s, elec_cost_calc, s.df_mo_en_hp, i,
                    FAdd(elec_kwh[i],
                         s.df_mo_en_hp[i].total_kwh
                            - s.df_mo_en_base[i].total_kwh),
                    FAdd(base_elec_kw(elec_kwh[i], i),
                         s.df_mo_en_hp[i].total_kw
                            - s.df_mo_en_base[i].total_kw))]]

\* HP_model.calc_monthly_cash
calc_monthly_cash(s) ==
    monthly_cash_tables(s,
        ElecCostCalc_init(s.utility, s.sales_tax, s.pce_limit),
        base_elec_kwh(s))

----------------------------------------------------------------------------
(* Inputs of the monthly costs *)

\* city.avg_elec_usage, kWh per month: a winter peak, a flat pattern and a
\* summer peak
ElecPatterns ==
    {<<700, 650, 600, 550, 500, 450, 450, 480, 520, 580, 640, 720>>,
     <<500, 500, 500, 500, 500, 500, 500, 500, 500, 500, 500, 500>>,
     <<400, 420, 450, 500, 600, 650, 700, 700, 600, 500, 450, 400>>}

\* the months of the heating season
Winter == {1, 2, 3, 10, 11, 12}

EnRow(kwh, kw, units) ==
    [total_kwh |-> kwh, total_kw |-> kw, secondary_fuel_units |-> units]

\* monthly energy results without and with the heat pump: the heat pump
\* never runs, or it replaces most of the winter fuel
EnergyTables ==
    LET base == [i \in 1..12 |-> IF i \in Winter
                                 THEN EnRow(Kwh(20), 1, 8000)
                                 ELSE EnRow(0, 0, 1000)]
        hp   == [i \in 1..12 |-> IF i \in Winter
                                 THEN EnRow(Kwh(520), Kwh(2), 2000)
                                 ELSE EnRow(Kwh(40), Kwh(1), 0)]
    IN  {<<base, base>>, <<base, hp>>}

\* the HP_model objects for which the two simulations of run() are stored
HP_model_with_energy ==
    {[city |-> [avg_elec_usage |-> p],
      elec_use_jan |-> Kwh(j), elec_use_may |-> Kwh(m),
      utility |-> [Blocks |-> << <<Kwh(500), 20>>, <<NaN, 25>> >>,
                   PCE |-> 10, CustomerChg |-> c[1], DemandCharge |-> c[2]],
      sales_tax |-> 5, pce_limit |-> l,
      fuel_other_uses |-> 12000, exist_unit_fuel_cost |-> 300,
      df_mo_en_base |-> t[1], df_mo_en_hp |-> t[2],
      called |-> FALSE, df_mo_dol_base |-> <<>>, df_mo_dol_hp |-> <<>>] :
        p \in ElecPatterns, j \in {400, 600, 1000}, m \in {400, 600, 1000},
        c \in UtilityCharges, l \in {NaN, Kwh(750)}, t \in EnergyTables}

----------------------------------------------------------------------------
(* Specification of the monthly costs: calc_monthly_cash() on a project    *)
(* whose two simulations are stored                                        *)

InitMonthlyCash ==
    /\ NoBilling
    /\ NoSimulation
    /\ hpm \in HP_model_with_energy
    /\ NoInputs
    /\ NoLibrary
    /\ NoApp

CalcMonthlyCash ==
    /\ hpm' = calc_monthly_cash(hpm)
    /\ UNCHANGED eccVars
    /\ UNCHANGED simVars
    /\ UNCHANGED <<ui, lib, app>>

NextMonthlyCash == CalcMonthlyCash

SpecMonthlyCash == InitMonthlyCash /\ [][NextMonthlyCash]_vars

----------------------------------------------------------------------------
(* inputs_to_vars (src/heatpump/ui_helper.py)                              *)
(*                                                                         *)
(* input_vals is carried as a function from the variable name to the value *)
(* the component holds: a number, None (nan, as is_null treats both alike) *)
(* or the string Text that is not a number.  An error message is the pair  *)
(* <<variable, message>>.  Rates are in cents per kWh.                     *)

\* a string that float() and int() reject
Text == 1 - Inf

\* utils.is_null: None, nan or a blank string
is_null(val) == val = NaN

\* lines 12-67: the rate inputs, two required numbers and the two terms;
\* the other fields carry the same codes as one of these
input_info ==
    << <<"utility_id", {"null-ok", "extra"}>>,
       <<"elec_rate_ez", {"null-ok", "float", "greater-than-zero", "extra"}>>,
       <<"blk1_kwh", {"null-ok", "int", "greater-than-zero", "extra"}>>,
       <<"blk2_kwh", {"null-ok", "int", "greater-than-zero", "extra"}>>,
       <<"blk3_kwh", {"null-ok", "int", "greater-than-zero", "extra"}>>,
       <<"blk4_kwh", {"null-ok", "int", "greater-than-zero", "extra"}>>,
       <<"blk1_rate", {"null-ok", "float", "extra"}>>,
       <<"blk2_rate", {"null-ok", "float", "extra"}>>,
       <<"blk3_rate", {"null-ok", "float", "extra"}>>,
       <<"blk4_rate", {"null-ok", "float", "extra"}>>,
       <<"bldg_floor_area", {"float", "greater-than-zero"}>>,
       <<"capital_cost", {"float"}>>,
       <<"loan_term", {}>>,
       <<"hp_life", {}>> >>

\* lines 129-153: the checks of one field
field_errors(info, val) ==
    IF is_null(val)
    THEN IF "null-ok" \in info[2] THEN <<>>
         ELSE << <<info[1], "must be entered">> >>
    ELSE (IF "float" \in info[2] /\ val = Text
          THEN << <<info[1], "must be a number">> >>
          ELSE IF "float" \notin info[2] /\ "int" \in info[2] /\ val = Text
          THEN << <<info[1], "must be an integer number">> >>
          ELSE <<>>)
         \o (IF "greater-than-zero" \in info[2] /\ (val = Text \/ val <= 0)
             THEN << <<info[1], "must be greater than zero">> >>
             ELSE <<>>)

\* a loop over the fields that stops at the first field in error
field_loop_fail_fast(input_vals) ==
    LET e(i) == field_errors(input_info[i], input_vals[input_info[i][1]])
        bad == {i \in DOMAIN input_info : e(i) # <<>>}
    IN  IF bad = {} THEN <<>>
        ELSE e(CHOOSE i \in bad : \A k \in bad : i <= k)

\* lines 116-153: the loop over the fields, appending to errors
field_loop(input_vals) ==
    LET e(i) == field_errors(input_info[i], input_vals[input_info[i][1]])
        firsts(k) == e(k) \o e(k + 1)
    IN  firsts(1) \o firsts(3) \o firsts(5) \o firsts(7) \o firsts(9)
            \o firsts(11) \o firsts(13)

\* lines 155-158: the dictionary of the fields that are, or are not, extra
fields_of(input_vals, extra) ==
    [var \in {input_info[i][1] : i \in {k \in DOMAIN input_info :
                  ("extra" \in input_info[k][2]) = extra}} |->
        input_vals[var]]

\* lines 193-253: the utility object of the rate inputs, or the first error
\* of the section.  In the advanced input last_ix is the first empty limit,
\* so that the limits before it are filled out.
utility_of(extras) ==
    LET limits == <<extras.blk1_kwh, extras.blk2_kwh, extras.blk3_kwh,
                    extras.blk4_kwh>>
        rates == <<extras.blk1_rate, extras.blk2_rate, extras.blk3_rate,
                   extras.blk4_rate>>
        rate_var == <<"blk1_rate", "blk2_rate", "blk3_rate", "blk4_rate">>
        nulls == {i \in 1..4 : is_null(limits[i])}
        last_ix == CHOOSE i \in nulls : \A k \in nulls : i <= k
        no_rate == {i \in 1..last_ix : is_null(rates[i])}
        custom(blocks) ==
            [Blocks |-> blocks, PCE |-> 0, CustomerChg |-> 0,
             DemandCharge |-> IF extras.elec_input = "ez" THEN NaN ELSE 0]
    IN  IF extras.elec_input = "util"
        THEN IF is_null(extras.utility_id)
             THEN [error |-> <<"utility_id",
                               "You must select an Electric Utility">>]
             ELSE [utility |-> DefaultUtility]
        ELSE IF extras.elec_input = "ez"
        THEN IF is_null(extras.elec_rate_ez)
             THEN [error |-> <<"elec_rate_ez",
                               "You must enter an Electric Rate">>]
             ELSE [utility |-> custom(<< <<NaN, extras.elec_rate_ez>> >>)]
        ELSE IF nulls = {}
        THEN [error |-> <<"blk4_kwh", "The Last Electric Rate Block kWh "
                              \o "limit must be empty">>]
        ELSE IF no_rate # {}
        THEN [error |-> <<rate_var[CHOOSE i \in no_rate :
                                      \A k \in no_rate : i <= k],
                          "must have a rate">>]
        ELSE [utility |-> custom([i \in 1..last_ix |->
                             <<IF i = last_ix THEN NaN ELSE Kwh(limits[i]),
                               rates[i]>>])]

\* lines 100-304: errors, vars (here main) and extras; the variables made
\* after the utility (pce_limit, insul_level, ...) are left out of vars
inputs_to_vars(input_vals) ==
    LET errors == field_loop(input_vals)
        main == fields_of(input_vals, FALSE)
        extras == fields_of(input_vals, TRUE)
                      @@ [elec_input |-> input_vals.elec_input]
    IN  IF Len(errors) > 0
        THEN [errors |-> errors, vars |-> main, extras |-> extras]
        ELSE IF main.loan_term > main.hp_life
        THEN [errors |-> << <<"loan_term",
                  "The Term of the Loan cannot be longer than the Life "
                      \o "of the Heat Pump">> >>,
              vars |-> main, extras |-> extras]
        ELSE IF "error" \in DOMAIN utility_of(extras)
        THEN [errors |-> <<utility_of(extras).error>>,
              vars |-> main, extras |-> extras]
        ELSE [errors |-> <<>>,
              vars |-> main @@ [utility |-> utility_of(extras).utility],
              extras |-> extras]

----------------------------------------------------------------------------
(* Inputs of the input form *)

\* what the components of the form can hold
InputVals ==
    {[elec_input |-> ei, utility_id |-> u, elec_rate_ez |-> ez,
      blk1_kwh |-> l[1], blk2_kwh |-> l[2], blk3_kwh |-> l[3],
      blk4_kwh |-> l[4], blk1_rate |-> r[1], blk2_rate |-> r[2],
      blk3_rate |-> r[3], blk4_rate |-> r[4], bldg_floor_area |-> a,
      capital_cost |-> c, loan_term |-> t, hp_life |-> 5] :
        ei \in {"util", "ez", "adv"}, u \in {NaN, 1}, ez \in {NaN, 15},
        l \in {<<NaN, NaN, NaN, NaN>>, <<500, NaN, NaN, NaN>>,
               <<500, 1000, NaN, NaN>>, <<500, 200, NaN, NaN>>,
               <<500, 1000, 1500, 2000>>},
        r \in {<<20, NaN, NaN, NaN>>, <<20, 15, 10, NaN>>,
               <<NaN, 15, 10, NaN>>, <<20, NaN, 10, NaN>>},
        a \in {NaN, Text, 0, 1000}, c \in {NaN, Text, 4000},
        t \in {3, 10}}

----------------------------------------------------------------------------
(* Specification of the input validation: inputs_to_vars(input_vals)       *)

InitInputs ==
    /\ NoBilling
    /\ NoSimulation
    /\ NoProject
    /\ ui \in {[input_vals |-> v, called |-> FALSE, errors |-> <<>>,
                vars |-> <<>>, extras |-> <<>>] : v \in InputVals}
    /\ NoLibrary
    /\ NoApp

InputsToVars ==
    LET r == inputs_to_vars(ui.input_vals)
    IN  /\ ui' = [ui EXCEPT !.called = TRUE, !.errors = r.errors,
                            !.vars = r.vars, !.extras = r.extras]
        /\ UNCHANGED simVars
        /\ UNCHANGED eccVars
        /\ UNCHANGED <<hpm, lib, app>>

NextInputs == InputsToVars

SpecInputs == InitInputs /\ [][NextInputs]_vars

----------------------------------------------------------------------------
(* Specification of the library: the lookups of HomeHeatModel.calculate    *)
(* (home_heat_model.py lines 130-132) made by the threads                  *)

InitLib ==
    /\ NoBilling
    /\ NoSimulation
    /\ NoProject
    /\ NoInputs
    /\ NoLibrary
    /\ NoApp

nonLibVars == <<ecc, ecc_args, ecc_call, df_tmy, sim, sim_loop, hpm, ui, app>>

\* time passes
Tick ==
    /\ lib.now + 13 <= MaxHours
    /\ lib' = [lib EXCEPT !.now = @ + 13]
    /\ UNCHANGED nonLibVars

\* a request starts calculate() on a thread
StartCalculate(t) ==
    /\ lib.pc[t] \in {"idle", "done"}
    /\ lib' = [lib EXCEPT !.pc[t] = "city_from_id", !.reads[t] = NoReads]
    /\ UNCHANGED nonLibVars

\* library.py line 58, called at home_heat_model.py line 130
CityFromId(t) ==
    /\ lib.pc[t] = "city_from_id"
    /\ lib' = [lib EXCEPT !.reads[t].city = lib.df_city,
                          !.pc[t] = "heat_pump_from_id"]
    /\ UNCHANGED nonLibVars

\* library.py lines 129-130, called at home_heat_model.py line 131
HeatPumpFromId(t) ==
    /\ lib.pc[t] = "heat_pump_from_id"
    /\ lib' = [lib EXCEPT !.pc[t] = IF refresh_due(lib) THEN "ts"
                                    ELSE "lookup"]
    /\ UNCHANGED nonLibVars

\* library.py lines 207-235, one statement at a time
RefreshData(t) ==
    /\ lib.pc[t] \in {refresh_steps[k] : k \in 1..(Len(refresh_steps) - 1)}
    /\ lib' = [refresh_statement(lib, lib.pc[t])
                   EXCEPT !.pc[t] = next_step(lib.pc[t])]
    /\ UNCHANGED nonLibVars

\* library.py lines 132-167: the row, or the generic unit made from a copy
HeatPumpLookup(t) ==
    /\ lib.pc[t] = "lookup"
    /\ lib' = [lib EXCEPT !.reads[t].hp = lib.df_heatpumps,
                          !.pc[t] = "fuel_from_id"]
    /\ UNCHANGED nonLibVars

\* library.py line 179, called at home_heat_model.py line 132
FuelFromId(t) ==
    /\ lib.pc[t] = "fuel_from_id"
    /\ lib' = [lib EXCEPT !.reads[t].fuel = lib.df_fuel,
                          !.pc[t] = "done"]
    /\ UNCHANGED nonLibVars

NextLib ==
    \/ Tick
    \/ \E t \in Threads :
           \/ StartCalculate(t)
           \/ CityFromId(t)
           \/ HeatPumpFromId(t)
           \/ RefreshData(t)
           \/ HeatPumpLookup(t)
           \/ FuelFromId(t)

SpecLib == InitLib /\ [][NextLib]_vars

----------------------------------------------------------------------------
(* The calculation callbacks of the page (src/heatpump/app.py) and         *)
(* create_results (src/heatpump/create_results_display.py).                *)
(*                                                                         *)
(* app.now is the clock that stamps modified_timestamp when the data of a  *)
(* dcc.Store is set; a store never set has the timestamp -1.  A callback   *)
(* is fired when one of its Inputs is set and runs later, in any order     *)
(* with the other fired callbacks and the events of the user: app.pending  *)
(* holds the fired callbacks.  update_results is fired with the State      *)
(* values of the moment of the click (app.click_args).  The children of    *)
(* div-results are carried as whether they were computed and from which    *)
(* input values.                                                           *)

\* the events of the user (input changes and clicks) of one session
MaxEvents == 2

\* the parameters of HP_model.__init__ (hp_model.py lines 53-92) that the
\* form model carries, with utility and off_months_chks; none has a default
HP_model_params_of_form ==
    {"bldg_floor_area", "capital_cost", "loan_term", "hp_life"}

HP_model_params ==
    {"bldg_floor_area", "capital_cost", "loan_term", "hp_life", "utility",
     "off_months_chks"}

\* app.py lines 895-896
invalid_ts(ts) == ts = NaN \/ ts <= 0

\* app.py lines 930-943; the style's display
set_calc_visibility(ts_calc, ts_inputs, md_error_children) ==
    IF md_error_children = "None" \/ md_error_children # ""
    THEN "none"
    ELSE IF invalid_ts(ts_calc) \/ ts_calc < ts_inputs THEN "block"
         ELSE "none"

\* app.py lines 945-959
set_calc_indicator_vis(ts_calc, ts_results) ==
    IF invalid_ts(ts_calc) THEN "none"
    ELSE IF invalid_ts(ts_results) THEN "block"
    ELSE IF ts_calc >= ts_results THEN "block"
    ELSE "none"

\* app.py lines 961-973
results_vis(ts_inputs, ts_results) ==
    IF invalid_ts(ts_results) \/ invalid_ts(ts_inputs) THEN "none"
    ELSE IF ts_results >= ts_inputs THEN "block"
    ELSE "none"

\* app.py lines 918-928: the Markdown of the error list, '' without errors
list_errors(args) ==
    IF Len(inputs_to_vars(args).errors) = 0 THEN "" ELSE "errors"

\* create_results_display.py lines 46-47 with the inputs that
\* inputs_to_vars returned: the HP_model call raises TypeError when the
\* keywords do not bind; a constructed model is run, and run() raises the
\* TypeError of its HomeHeatModel(...) call (hp_model.py lines 131-148)
create_results_with(input_values, inputs) ==
    IF ~call_binds(DOMAIN inputs, HP_model_params, {})
    THEN [exception |-> "TypeError", hp_constructed |-> FALSE,
          run_started |-> FALSE, children |-> <<>>]
    ELSE IF ~call_binds(run_sim_keywords, HomeHeatModel_params,
                        HomeHeatModel_defaults)
    THEN [exception |-> "TypeError", hp_constructed |-> TRUE,
          run_started |-> TRUE, children |-> <<>>]
    ELSE [exception |-> "none", hp_constructed |-> TRUE,
          run_started |-> TRUE,
          children |-> [computed |-> TRUE, inputs |-> input_values]]

\* create_results_display.py lines 36-47: the errors are dropped
create_results(input_values) ==
    create_results_with(input_values, inputs_to_vars(input_values).vars)

\* the page as the browser first shows it (app.py lines 447-486): every
\* callback is fired once
app_layout(input_vals) ==
    [input_vals |-> input_vals, n_clicks |-> 0, events |-> 0, now |-> 1,
     store_inputs_ts |-> -1, store_calc_ts |-> -1, store_results_ts |-> -1,
     md_errors |-> "None", div_calculate |-> "block",
     div_calculating |-> "block", div_results |-> "block",
     children |-> [computed |-> FALSE, inputs |-> <<>>],
     click_args |-> <<>>,
     update_called |-> FALSE, update_args |-> <<>>, exception |-> "none",
     hp_constructed |-> FALSE, run_started |-> FALSE,
     pending |-> {"inputs_ts", "calc_ts", "results_ts", "list_errors",
                  "set_calc_visibility", "set_calc_indicator_vis",
                  "results_vis", "update_results"}]

\* a callback has run and fires the callbacks of its output
ran(a, callback, fired) ==
    [a EXCEPT !.pending = (@ \ {callback}) \cup fired]

\* the data of a store is set: its modified_timestamp is the time
stamped(a, store) == [a EXCEPT ![store] = a.now, !.now = @ + 1]

\* app.py lines 975-981 on the object of the page
update_results(a) ==
    IF a.n_clicks = 0 THEN a
    ELSE LET r == create_results(a.click_args)
             b == [a EXCEPT !.update_called = TRUE,
                            !.update_args = a.click_args,
                            !.exception = r.exception,
                            !.hp_constructed = r.hp_constructed,
                            !.run_started = r.run_started]
         IN  IF r.exception # "none" THEN b
             ELSE [b EXCEPT !.children = r.children,
                            !.pending = @ \cup {"results_ts"}]

----------------------------------------------------------------------------
(* Specification of the page: the user changes inputs and clicks Calculate *)
(* while the fired callbacks run                                           *)

\* values of the form: valid, a required number missing, and a loan longer
\* than the heat pump life
AppInputs ==
    LET ok == [elec_input |-> "ez", utility_id |-> NaN, elec_rate_ez |-> 15,
               blk1_kwh |-> NaN, blk2_kwh |-> NaN, blk3_kwh |-> NaN,
               blk4_kwh |-> NaN, blk1_rate |-> 20, blk2_rate |-> NaN,
               blk3_rate |-> NaN, blk4_rate |-> NaN,
               bldg_floor_area |-> 1000, capital_cost |-> 4000,
               loan_term |-> 3, hp_life |-> 5]
    IN  {ok, [ok EXCEPT !.bldg_floor_area = NaN],
         [ok EXCEPT !.loan_term = 10]}

nonAppVars == <<ecc, ecc_args, ecc_call, df_tmy, sim, sim_loop, hpm, ui, lib>>

InitApp ==
    /\ NoBilling
    /\ NoSimulation
    /\ NoProject
    /\ NoInputs
    /\ NoLibrary
    /\ app \in {app_layout(v) : v \in AppInputs}

\* the user changes the value of an input component
ChangeInput ==
    /\ app.events < MaxEvents
    /\ \E v \in AppInputs \ {app.input_vals} :
           app' = [app EXCEPT !.input_vals = v, !.events = @ + 1,
                              !.pending = @ \cup {"inputs_ts", "list_errors"}]
    /\ UNCHANGED nonAppVars

\* the user clicks the Calculate button, which div-calculate shows
Click ==
    /\ app.events < MaxEvents
    /\ app.div_calculate = "block"
    /\ "update_results" \notin app.pending
    /\ app' = [app EXCEPT !.n_clicks = @ + 1, !.events = @ + 1,
                          !.click_args = app.input_vals,
                          !.pending = @ \cup {"calc_ts", "update_results"}]
    /\ UNCHANGED nonAppVars

\* app.py lines 898-902
InputsTs ==
    /\ "inputs_ts" \in app.pending
    /\ app' = ran(stamped(app, "store_inputs_ts"), "inputs_ts",
                  {"set_calc_visibility", "results_vis"})
    /\ UNCHANGED nonAppVars

\* app.py lines 904-910
CalcTs ==
    /\ "calc_ts" \in app.pending
    /\ app' = IF app.n_clicks = 0 THEN ran(app, "calc_ts", {})
              ELSE ran(stamped(app, "store_calc_ts"), "calc_ts",
                       {"set_calc_visibility", "set_calc_indicator_vis"})
    /\ UNCHANGED nonAppVars

\* app.py lines 912-916
ResultsTs ==
    /\ "results_ts" \in app.pending
    /\ app' = ran(stamped(app, "store_results_ts"), "results_ts",
                  {"set_calc_indicator_vis", "results_vis"})
    /\ UNCHANGED nonAppVars

\* app.py lines 918-928
ListErrors ==
    /\ "list_errors" \in app.pending
    /\ app' = ran([app EXCEPT !.md_errors = list_errors(app.input_vals)],
                  "list_errors", {"set_calc_visibility"})
    /\ UNCHANGED nonAppVars

\* app.py lines 930-943
SetCalcVisibility ==
    /\ "set_calc_visibility" \in app.pending
    /\ app' = ran([app EXCEPT !.div_calculate =
                       set_calc_visibility(app.store_calc_ts,
                                           app.store_inputs_ts,
                                           app.md_errors)],
                  "set_calc_visibility", {})
    /\ UNCHANGED nonAppVars

\* app.py lines 945-959
SetCalcIndicatorVis ==
    /\ "set_calc_indicator_vis" \in app.pending
    /\ app' = ran([app EXCEPT !.div_calculating =
                       set_calc_indicator_vis(app.store_calc_ts,
                                              app.store_results_ts)],
                  "set_calc_indicator_vis", {})
    /\ UNCHANGED nonAppVars

\* app.py lines 961-973
ResultsVis ==
    /\ "results_vis" \in app.pending
    /\ app' = ran([app EXCEPT !.div_results =
                       results_vis(app.store_inputs_ts,
                                   app.store_results_ts)],
                  "results_vis", {})
    /\ UNCHANGED nonAppVars

\* app.py lines 975-981
UpdateResults ==
    /\ "update_results" \in app.pending
    /\ app' = ran(update_results(app), "update_results", {})
    /\ UNCHANGED nonAppVars

NextApp ==
    \/ ChangeInput
    \/ Click
    \/ InputsTs
    \/ CalcTs
    \/ ResultsTs
    \/ ListErrors
    \/ SetCalcVisibility
    \/ SetCalcIndicatorVis
    \/ ResultsVis
    \/ UpdateResults

SpecApp == InitApp /\ [][NextApp]_vars

----------------------------------------------------------------------------
(* Vocabulary of the billing claims *)

TenthKwh == KwhScale \div 10
Dollars(n) == n * CostUnitsPerDollar

\* the schedule blocks the constructor reads: up to the first unbounded one
RECURSIVE UsedBlocks(_)
UsedBlocks(b) ==
    IF b = <<>> THEN <<>>
    ELSE IF chg_nonnum(Head(b)[1], Inf) = Inf THEN <<Head(b)>>
         ELSE <<Head(b)>> \o UsedBlocks(Tail(b))

\* upper limits of the schedule, nan read as unbounded
ScheduleLimits ==
    LET u == UsedBlocks(ecc.utility.Blocks)
    IN  [i \in 1..Len(u) |-> chg_nonnum(u[i][1], Inf)]

\* cumulative upper bound of final block i, from the block quantities
RECURSIVE CumUpper(_, _)
CumUpper(blocks, i) ==
    IF i = 0 THEN 0
    ELSE IF blocks[i][1] = Inf THEN Inf
         ELSE CumUpper(blocks, i - 1) + blocks[i][1]

FinalLimits == [i \in 1..Len(ecc.blocks) |-> CumUpper(ecc.blocks, i)]

\* s with x inserted before position p
InsertAt(s, p, x) == SubSeq(s, 1, p - 1) \o <<x>> \o SubSeq(s, p, Len(s))

PceLimit  == pce_limit_of(ecc_args.pce_limit)
PceCredit == chg_nonnum(ecc.utility.PCE, 0)

LowerLimit(j) == IF j = 1 THEN 0 ELSE ScheduleLimits[j - 1]

\* the PCE limit lies strictly inside schedule block j
StrictlyInside(j) == LowerLimit(j) < PceLimit /\ PceLimit < ScheduleLimits[j]

PceLimitInsideABlock == \E j \in 1..Len(ScheduleLimits) : StrictlyInside(j)

OneBoundaryInserted ==
    \E p \in 1..Len(ScheduleLimits) :
        FinalLimits = InsertAt(ScheduleLimits, p, PceLimit)

\* the schedule that input validation is meant to guarantee
StrictlyIncreasingSchedule ==
    \A j \in 1..Len(ScheduleLimits) : LowerLimit(j) < ScheduleLimits[j]

----------------------------------------------------------------------------
(* C1 *)

\* C1 (as stated): the kwh_in_block amounts charged by the allocation loop
\* add up to exactly the kwh_energy passed to monthly_cost.
C1_AllocationExact ==
    ecc_call.called => SumSeq(ecc_call.alloc) = ecc_call.kwh_energy

\* C1 (amended): the kwh_in_block amounts never add up to more than
\* kwh_energy, and what is left unallocated (remaining_kwh at the end of the
\* loop) is less than the 0.1 kWh tolerance; nothing is counted twice.
C1_AllocationWithinTolerance ==
    ecc_call.called =>
        LET lost == ecc_call.kwh_energy - SumSeq(ecc_call.alloc)
        IN  /\ lost >= 0
            /\ lost < TenthKwh
            /\ lost = ecc_call.remaining_kwh

\* a call that fills a block and stops with a fraction of a kWh unbilled
C1_Witness ==
    /\ ecc_call.called
    /\ Len(ecc_call.alloc) >= 2
    /\ SumSeq(ecc_call.alloc) < ecc_call.kwh_energy

----------------------------------------------------------------------------
(* C2 *)

ExampleUtility ==
    [Blocks |-> << <<Kwh(750), 20>>, <<NaN, 30>> >>, PCE |-> 10,
     CustomerChg |-> 1000, DemandCharge |-> 0]

IsExampleCalc ==
    /\ ecc.utility = ExampleUtility
    /\ ecc.sales_tax = 0
    /\ ecc_args.pce_limit = Kwh(750)

\* C2: for the schedule [(750 kWh, $0.20), (unbounded, $0.30)] with PCE
\* $0.10 up to 750 kWh, customer charge $10, no demand charge and no tax,
\* monthly_cost(500, 0) is $60.00 and monthly_cost(1000, 0) is $160.00.
C2_ExampleCosts ==
    (IsExampleCalc /\ ecc_call.called /\ ecc_call.kw_demand = 0) =>
        /\ ecc_call.kwh_energy = Kwh(500)  => ecc_call.cost = Dollars(60)
        /\ ecc_call.kwh_energy = Kwh(1000) => ecc_call.cost = Dollars(160)

C2_Witness ==
    /\ IsExampleCalc
    /\ ecc_call.called
    /\ ecc_call.kw_demand = 0
    /\ ecc_call.kwh_energy = Kwh(1000)
    /\ ecc_call.cost = Dollars(160)

----------------------------------------------------------------------------
(* C3 *)

\* C3 (as stated): construction inserts one boundary at pce_limit exactly
\* when the PCE credit is non-zero and pce_limit lies strictly inside a
\* block; when pce_limit equals an existing upper limit, or the credit is
\* zero, or pce_limit is 0, the final boundaries are those of the schedule.
C3_SplitIffStrictlyInside ==
    /\ OneBoundaryInserted <=> (PceCredit # 0 /\ PceLimitInsideABlock)
    /\ (\/ \E j \in 1..Len(ScheduleLimits) : ScheduleLimits[j] = PceLimit
        \/ PceCredit = 0
        \/ PceLimit = 0)
       => FinalLimits = ScheduleLimits

\* the same statement restricted to strictly increasing schedules
C3_OnIncreasingSchedules ==
    StrictlyIncreasingSchedule => C3_SplitIffStrictlyInside

----------------------------------------------------------------------------
(* C4 *)

\* C4: every final block whose cumulative upper bound is <= pce_limit has
\* the rate (schedule rate - PCE credit) x (1 + sales_tax), every other
\* block has schedule rate x (1 + sales_tax); with an unlimited pce_limit
\* (inf or nan) every block, the unbounded one included, is credited.
C4_CreditUpToPceLimit ==
    /\ Len(ecc.blocks) = Len(ecc_args.temp_blocks)
    /\ \A i \in 1..Len(ecc.blocks) :
         LET sched_rate == ecc_args.temp_blocks[i][2]
         IN  ecc.blocks[i][2] =
                IF FinalLimits[i] <= PceLimit
                THEN (sched_rate - PceCredit) * (100 + ecc.sales_tax)
                ELSE sched_rate * (100 + ecc.sales_tax)
    /\ ecc_args.pce_limit \in {Inf, NaN} =>
         \A i \in 1..Len(ecc.blocks) :
            ecc.blocks[i][2] = (ecc_args.temp_blocks[i][2] - PceCredit)
                                    * (100 + ecc.sales_tax)

\* a taxed schedule with a credited block ending at the limit and an
\* uncredited block above it
C4_Witness ==
    /\ PceCredit # 0
    /\ ecc.sales_tax # 0
    /\ \E i, j \in 1..Len(ecc.blocks) :
         /\ FinalLimits[i] = PceLimit
         /\ FinalLimits[j] > PceLimit
         /\ ecc.blocks[i][2] # ecc.blocks[j][2]

----------------------------------------------------------------------------
(* C5 *)

\* the block quantities of the schedule as given, with no PCE processing
UnsplitBlocks ==
    LET u == UsedBlocks(ecc.utility.Blocks)
    IN  [i \in 1..Len(u) |->
            <<FSub(ScheduleLimits[i], LowerLimit(i)),
              u[i][2] * (100 + ecc.sales_tax)>>]

\* C5: with a zero PCE credit and pce_limit inside a block, monthly_cost
\* equals the monthly_cost of the calculator of the unsplit schedule, for
\* every kwh_energy and kw_demand.
C5_ZeroPceIsUnsplit ==
    (ecc_call.called /\ PceCredit = 0 /\ PceLimitInsideABlock) =>
        ecc_call.cost =
            monthly_cost([ecc EXCEPT !.blocks = UnsplitBlocks],
                         ecc_call.kwh_energy, ecc_call.kw_demand).cost

\* zero credit, the limit inside a block, usage just above the limit
C5_Witness ==
    /\ ecc_call.called
    /\ ecc.utility.PCE = 0
    /\ PceLimitInsideABlock
    /\ ecc_call.kwh_energy > PceLimit
    /\ ecc_call.kwh_energy - PceLimit < TenthKwh

----------------------------------------------------------------------------
(* C6 *)

\* C6 (as stated): the final block list is non-empty, its last block is
\* unbounded, no earlier block is unbounded, and every earlier block has a
\* strictly positive width equal to its upper limit minus the previous one.
C6_WellFormedFinalBlocks ==
    LET n == Len(ecc.blocks)
        t == ecc_args.temp_blocks
    IN  /\ n >= 1
        /\ ecc.blocks[n][1] = Inf
        /\ \A i \in 1..(n - 1) :
             /\ ecc.blocks[i][1] # Inf
             /\ ecc.blocks[i][1] > 0
             /\ ecc.blocks[i][1] = t[i][1] - (IF i = 1 THEN 0 ELSE t[i-1][1])

\* the same statement restricted to strictly increasing schedules
C6_OnIncreasingSchedules ==
    StrictlyIncreasingSchedule => C6_WellFormedFinalBlocks

----------------------------------------------------------------------------
(* Vocabulary of the simulation claims *)

Hours == 1..Len(df_tmy)

\* the temperatures of the day that hour h belongs to
DayTemps(h) ==
    [k \in 1..HoursPerDay |-> df_tmy[(day_of_year(h) - 1) * HoursPerDay + k]]

\* the day's 20th-percentile temperature is at or below low_temp_cutoff
ColdDay(h) == quantile_02_x5(DayTemps(h)) <= 5 * sim.low_temp_cutoff

\* the day's 20th-percentile temperature is exactly low_temp_cutoff
DayAtCutoff(h) == quantile_02_x5(DayTemps(h)) = 5 * sim.low_temp_cutoff

\* the heat pump is disabled in hour h
Disabled(h) == ColdDay(h) \/ sim.no_heat_pump_use

\* the hours of month m
HoursOf(m) == {h \in Hours : month(h) = m}

\* the two served loads of hour h of the result table
ServedLoad(h) ==
    sim.df_hourly[h].hp_load_mmbtu + sim.df_hourly[h].secondary_load_mmbtu

----------------------------------------------------------------------------
(* C7, as stated: in every hour of the result table hp_load_mmbtu plus     *)
(* secondary_load_mmbtu equals the hour's total load (home load plus       *)
(* garage load), whatever exist_kwh_per_mmbtu >= 0 is.                     *)
C7_ServedLoadsSumToTotal ==
    sim.calculated =>
        \A h \in Hours : ServedLoad(h) = sim_loop[h].total_load

(* C7, amended: the two lists built by the hourly loop sum to the total    *)
(* load; the table's secondary column is that list divided by              *)
(* 1 + exist_kwh_per_mmbtu * 0.003412, so the table's two columns sum to   *)
(* the total load exactly when exist_kwh_per_mmbtu is 0 or the hour's      *)
(* secondary load is 0, and to less than the total load otherwise;         *)
(* multiplying the column back by the divisor restores the total.          *)
C7_ServedLoadsSumUnlessAux ==
    sim.calculated =>
        \A h \in Hours :
            /\ sim_loop[h].hp_load + sim_loop[h].secondary_load
                    = sim_loop[h].total_load
            /\ sim.df_hourly[h].hp_load_mmbtu = sim_loop[h].hp_load
            /\ ServedLoad(h) <= sim_loop[h].total_load
            /\ (ServedLoad(h) = sim_loop[h].total_load)
                    <=> (sim.exist_kwh_per_mmbtu = 0
                            \/ sim_loop[h].secondary_load = 0)
            /\ sim_loop[h].secondary_load
                    - MulDiv(sim.df_hourly[h].secondary_load_mmbtu,
                             AuxOne + aux_ratio(sim), AuxOne) \in 0..2

\* an hour served by both systems in a home with auxiliary electricity
C7_Witness ==
    /\ sim.calculated
    /\ sim.exist_kwh_per_mmbtu > 0
    /\ \E h \in Hours : /\ sim_loop[h].hp_load > 0
                         /\ sim_loop[h].secondary_load > 0
                         /\ ServedLoad(h) < sim_loop[h].total_load

----------------------------------------------------------------------------
(* C8: in every hour of a day whose 20th-percentile temperature is at or   *)
(* below low_temp_cutoff, and in every hour when no_heat_pump_use is set,  *)
(* the heat-pump load and hp_kwh are zero and the whole load of the hour   *)
(* is given to the secondary system; the monthly hp_kwh of a month made    *)
(* only of such hours is zero.                                             *)
C8_DisabledAtOrBelowCutoff ==
    sim.calculated =>
        /\ \A h \in Hours :
               Disabled(h) =>
                   /\ sim.df_hourly[h].hp_load_mmbtu = 0
                   /\ sim.df_hourly[h].hp_kwh = 0
                   /\ sim_loop[h].secondary_load = sim_loop[h].total_load
        /\ \A m \in DOMAIN sim.df_monthly :
               (\A h \in HoursOf(m) : Disabled(h)) =>
                   sim.df_monthly[m].hp_kwh = 0

\* a month made of cold days, one of them exactly at the cutoff, with load
\* to serve, in a run where the heat pump is allowed
C8_Witness ==
    /\ sim.calculated
    /\ ~sim.no_heat_pump_use
    /\ \E m \in DOMAIN sim.df_monthly :
           /\ \A h \in HoursOf(m) : ColdDay(h)
           /\ \E h \in HoursOf(m) : DayAtCutoff(h) /\ sim_loop[h].total_load > 0
           /\ sim.df_monthly[m].hp_kwh = 0
           /\ sim.df_monthly[m].secondary_load_mmbtu > 0

----------------------------------------------------------------------------
(* C9, as stated: in every hour the heat pump runs its load is at most     *)
(* that hour's max_hp_output, and max_hp_reached is True exactly when the  *)
(* load the heat pump was asked for reached max_hp_output in some hour.    *)
C9_FlagIffCapHit ==
    sim.calculated =>
        /\ \A h \in Hours :
               sim_loop[h].in_hp_branch =>
                   sim_loop[h].hp_load <= sim_loop[h].max_hp_output
        /\ sim.max_hp_reached
               <=> \E h \in Hours :
                       /\ sim_loop[h].in_hp_branch
                       /\ sim_loop[h].hp_ld_wanted >= sim_loop[h].max_hp_output

(* C9, amended: in every hour the heat pump runs its load is the smaller   *)
(* of the load asked for and that hour's max_hp_output; max_hp_reached is  *)
(* True exactly when in some such hour the load is at least 0.999 times    *)
(* max_hp_output, which includes hours that stay below the cap; it is      *)
(* False when the heat pump never runs.                                    *)
C9_FlagIffWithinTenthPercent ==
    sim.calculated =>
        /\ \A h \in Hours :
               sim_loop[h].in_hp_branch =>
                   /\ sim_loop[h].hp_load <= sim_loop[h].max_hp_output
                   /\ sim_loop[h].hp_load <= sim_loop[h].hp_ld_wanted
                   /\ sim_loop[h].hp_load = sim_loop[h].max_hp_output
                        \/ sim_loop[h].hp_load = sim_loop[h].hp_ld_wanted
        /\ sim.max_hp_reached
               <=> \E h \in Hours :
                       /\ sim_loop[h].in_hp_branch
                       /\ sim_loop[h].max_hp_output - sim_loop[h].hp_load
                              <= sim_loop[h].max_hp_output \div 1000
        /\ (\A h \in Hours : ~sim_loop[h].in_hp_branch)
               => ~sim.max_hp_reached

\* the flag is set by an hour that stays below the cap, and no hour of the
\* run reaches the cap
C9_Witness ==
    /\ sim.calculated
    /\ sim.max_hp_reached
    /\ \A h \in Hours :
           sim_loop[h].in_hp_branch =>
               sim_loop[h].hp_ld_wanted < sim_loop[h].max_hp_output

----------------------------------------------------------------------------
(* C10: when an annual fuel use is supplied, run() solves ua_true_up and   *)
(* the baseline simulated with it uses the target space-heating fuel (the  *)
(* supplied figure less the other end uses) to within 1%.                  *)
C10_CalibrationRoundTrip ==
    (hpm.ran /\ hpm.exist_fuel_use # NaN) =>
        /\ hpm.exception = "none"
        /\ hpm.ua_true_up # NaN
        /\ LET target == hpm.exist_fuel_use - hpm.fuel_other_uses
               base   == FuelUnits(hpm.ann_en_base)
               diff   == IF base >= target THEN base - target
                                           ELSE target - base
           IN  100 * diff <= target

----------------------------------------------------------------------------
(* Vocabulary of the result tables *)

\* the columns of the monthly table that are sums of hourly values
EnergyColumns ==
    {"hp_load_mmbtu", "secondary_load_mmbtu", "hp_kwh",
     "secondary_fuel_mmbtu", "secondary_kwh", "total_kwh"}

\* the peak columns and the hourly column each is the peak of
PeakOf == [hp_kw |-> "hp_kwh", secondary_kw |-> "secondary_kwh",
           total_kw |-> "total_kwh"]

\* the sum of a column of the monthly table over all of its months
RECURSIVE SumOverMonths(_, _)
SumOverMonths(col, ms) ==
    IF ms = {} THEN 0
    ELSE LET m == CHOOSE k \in ms : TRUE
         IN  sim.df_monthly[m][col] + SumOverMonths(col, ms \ {m})

\* v is the largest of the values vs, or 0 when there are none above 0
IsMaxOf(v, vs) == (v \in vs \cup {0}) /\ (\A w \in vs : w <= v)

\* c is heat delivered over electric input, in 1e-4, rounded down
IsRatio(c, heat, elec) ==
    /\ elec > 0
    /\ c = MulDiv(heat, 10000, elec)

----------------------------------------------------------------------------
(* C12: every annual energy or load column is the sum of its monthly       *)
(* values; every monthly peak kW is the largest hourly kWh of the month    *)
(* and every annual peak is the largest monthly peak; a monthly COP, and   *)
(* the annual COP, is the heat delivered by the heat pump divided by its   *)
(* electric input over the same period.                                    *)
C12_AnnualAndMonthlyTotals ==
    sim.calculated =>
        /\ \A col \in EnergyColumns \cup {"secondary_fuel_units"} :
               sim.ser_annual[col] = SumOverMonths(col, DOMAIN sim.df_monthly)
        /\ \A m \in DOMAIN sim.df_monthly : \A col \in EnergyColumns :
               sim.df_monthly[m][col]
                   = SumSeq([k \in 1..Len(sim.df_hourly) |->
                               IF sim.df_hourly[k].month = m
                               THEN sim.df_hourly[k][col] ELSE 0])
        /\ \A p \in DOMAIN PeakOf :
               /\ \A m \in DOMAIN sim.df_monthly :
                      IsMaxOf(sim.df_monthly[m][p],
                              {sim.df_hourly[k][PeakOf[p]] : k \in HoursOf(m)})
               /\ IsMaxOf(sim.ser_annual[p],
                          {sim.df_monthly[m][p] : m \in DOMAIN sim.df_monthly})
        /\ \A m \in DOMAIN sim.df_monthly :
               sim.df_monthly[m].hp_kwh > 0 =>
                   IsRatio(sim.df_monthly[m].cop,
                           sim.df_monthly[m].hp_load_mmbtu,
                           sim.df_monthly[m].hp_kwh)
        /\ sim.ser_annual.hp_kwh > 0 =>
               IsRatio(sim.ser_annual.cop, sim.ser_annual.hp_load_mmbtu,
                       sim.ser_annual.hp_kwh)

\* a run with two months whose peaks differ, in one of which the heat pump
\* works at hourly COPs that differ
C12_Witness ==
    /\ sim.calculated
    /\ \E m1, m2 \in DOMAIN sim.df_monthly :
           /\ 0 < sim.df_monthly[m1].total_kw
           /\ sim.df_monthly[m1].total_kw < sim.df_monthly[m2].total_kw
           /\ sim.ser_annual.total_kw = sim.df_monthly[m2].total_kw
    /\ \E m \in DOMAIN sim.df_monthly :
           /\ sim.df_monthly[m].hp_kwh > 0
           /\ \E h1, h2 \in HoursOf(m) :
                  /\ sim.df_hourly[h1].hp_kwh > 0
                  /\ sim.df_hourly[h2].hp_kwh > 0
                  /\ sim.df_hourly[h1].cop # sim.df_hourly[h2].cop

----------------------------------------------------------------------------
(* C11: one run() constructs exactly one HomeHeatModel and calls its       *)
(* calculate() exactly twice, whether or not a fuel use is supplied.       *)
C11_OneSimulationTwoRuns ==
    hpm.ran =>
        /\ hpm.sims_created = 1
        /\ hpm.calculate_calls = 2

----------------------------------------------------------------------------
(* C13, in calculate(): when the annual heat-pump kWh is zero the seasonal *)
(* COP of the annual results is nan.                                       *)
C13_ZeroKwhCopIsNan ==
    (sim.calculated /\ sim.ser_annual.hp_kwh = 0) => sim.ser_annual.cop = NaN

(* C13: when the annual heat-pump kWh is zero, calculate() reports the     *)
(* seasonal COP as nan and run() ends without an exception with that       *)
(* value under summary['cop'].                                             *)
C13_RunSurfacesCop ==
    hpm.ran =>
        /\ hpm.exception = "none"
        /\ "cop" \in hpm.summary
        /\ hpm.ann_en_hp.hp_kwh = 0 => hpm.summary_cop = NaN

----------------------------------------------------------------------------
(* Vocabulary of the cash-flow claims *)

CashFlowMade == hpm.called /\ hpm.exception = "none"

\* inputs_to_vars rejects a loan term longer than the heat pump life
PassesValidation == hpm.loan_term <= hpm.hp_life

CashColumns ==
    {"initial_cost", "loan_cost", "op_cost", "fuel_cost", "elec_cost",
     "cash_flow", "cum_disc_cash_flow"}

\* the table row of year n
RowOf(col, n) == hpm.df_cash_flow[col][n + 1]

\* (1 + rate)^n, in 1/FactorOne
Compound(rate, n) == Pow(RateDen + rate, n) * Pow(RateDen, MaxLife - n)

\* the escalation multiplier of year n
PatternAt(rate, n) ==
    IF n = 0 THEN 0 ELSE IF n = 1 THEN FactorOne ELSE Compound(rate, n - 1)

\* annual change of a monthly cost column, with heat pump minus base case
AnnualChange(col) ==
    SumSeq([m \in 1..Len(hpm.df_mo_dol_hp) |-> hpm.df_mo_dol_hp[m][col]])
        - SumSeq([m \in 1..Len(hpm.df_mo_dol_base) |->
                     hpm.df_mo_dol_base[m][col]])

\* delta times the multiplier, at the resolution of the table
Escalate(delta, rate, n) == MulDiv(0 - delta, PatternAt(rate, n), FactorOne)

\* the amortized payment of the financed amount, exact size as <<q, r>>
PaymentSize ==
    np_pmt_size(hpm.loan_interest, hpm.loan_term,
                (hpm.capital_cost * hpm.pct_financed) \div 100)

\* the payment is more than one cent
PaymentOverCent ==
    \/ PaymentSize[1] > MillsPerDollar \div 100
    \/ PaymentSize[1] = MillsPerDollar \div 100 /\ PaymentSize[2] > 0

\* the loan_cost column holds pmt in the years 1..loan_term and 0 elsewhere
LoanColumnIs(pmt) ==
    \A n \in 0..hpm.hp_life :
        RowOf("loan_cost", n)
            = IF 1 <= n /\ n <= hpm.loan_term THEN pmt ELSE 0

\* the discounted value of the cash flow of year k
Discounted(k) ==
    MulDiv(RowOf("cash_flow", k), FactorOne, Compound(hpm.discount_rate, k))

NeverChangesSign(values) ==
    \/ \A i \in DOMAIN values : values[i] <= 0
    \/ \A i \in DOMAIN values : values[i] >= 0

\* dollar delta over usage delta, nan when the usage delta is zero
IncrementalPrice(dol, use) ==
    IF use = 0 THEN NaN ELSE FDiv(dol, 1, use)

----------------------------------------------------------------------------
(* C14: when the loan term does not exceed the heat pump life, every       *)
(* column of the cash-flow table has hp_life + 1 rows, and row 0 holds     *)
(* -capital_cost * (1 - pct_financed) + rebate_dol as initial cost and     *)
(* zero as loan, O&M, fuel and electricity cost.                           *)
C14_TableRowsAndYearZero ==
    (hpm.called /\ PassesValidation) =>
        /\ hpm.exception = "none"
        /\ \A col \in CashColumns : Len(hpm.df_cash_flow[col]) = hpm.hp_life + 1
        /\ RowOf("initial_cost", 0)
               = hpm.rebate_dol
                   - (hpm.capital_cost * (100 - hpm.pct_financed)) \div 100
        /\ \A col \in {"loan_cost", "op_cost", "fuel_cost", "elec_cost"} :
               RowOf(col, 0) = 0
        /\ RowOf("cash_flow", 0) = RowOf("initial_cost", 0)

\* a partly financed project with a rebate, loan payments, O&M, fuel and
\* electricity changes, whose loan ends before the heat pump does
C14_Witness ==
    /\ CashFlowMade
    /\ hpm.loan_term < hpm.hp_life
    /\ hpm.pct_financed > 0 /\ hpm.pct_financed < 100
    /\ hpm.rebate_dol > 0
    /\ RowOf("initial_cost", 0) < 0
    /\ \A col \in {"loan_cost", "op_cost", "elec_cost"} : RowOf(col, 1) < 0
    /\ RowOf("fuel_cost", 1) > 0

----------------------------------------------------------------------------
(* C15: make_pattern(esc, life) has life + 1 entries: 0 for year 0, 1.0    *)
(* for year 1 and (1 + esc)^(n-1) for every year n >= 2; the O&M, fuel and *)
(* electricity columns of the table are minus the annual change times the  *)
(* pattern of their own rate (inflation, fuel and electricity escalation). *)
C15_EscalationPattern ==
    /\ \A esc \in 0..2 : \A life \in 1..MaxLife :
           /\ Len(make_pattern(esc, life)) = life + 1
           /\ \A n \in 0..life :
                  make_pattern(esc, life)[n + 1] = PatternAt(esc, n)
    /\ CashFlowMade =>
           \A n \in 0..hpm.hp_life :
               /\ RowOf("op_cost", n)
                      = Escalate(hpm.op_cost_chg, hpm.inflation_rate, n)
               /\ RowOf("fuel_cost", n)
                      = Escalate(AnnualChange("secondary_fuel_dol"),
                                 hpm.fuel_esc_rate, n)
               /\ RowOf("elec_cost", n)
                      = Escalate(AnnualChange("elec_dol"),
                                 hpm.elec_esc_rate, n)

\* a table of the longest life whose three escalated columns change and
\* grow, the fuel column at a higher rate than the other two
C15_Witness ==
    /\ CashFlowMade
    /\ hpm.hp_life = MaxLife
    /\ hpm.fuel_esc_rate > hpm.inflation_rate
    /\ hpm.fuel_esc_rate > hpm.elec_esc_rate
    /\ \A col \in {"op_cost", "fuel_cost", "elec_cost"} :
           /\ RowOf(col, 1) # 0
           /\ RowOf(col, MaxLife) # RowOf(col, 1)

----------------------------------------------------------------------------
(* C16, as stated: when part of the capital cost is financed the loan_cost *)
(* column holds one constant negative payment in the years 1..loan_term    *)
(* and zero in year 0 and after the loan term; when nothing is financed it *)
(* is zero in every year.                                                  *)
C16_LoanPaymentWhenFinanced ==
    (CashFlowMade /\ PassesValidation) =>
        IF hpm.pct_financed > 0
        THEN \E pmt \in {RowOf("loan_cost", 1)} :
                 pmt < 0 /\ LoanColumnIs(pmt)
        ELSE LoanColumnIs(0)

(* C16, amended: when the amortized payment of the financed amount is more *)
(* than one cent a year, the loan_cost column holds that payment, negative *)
(* and the same in each of the years 1..loan_term, and zero in year 0 and  *)
(* after the loan term; otherwise (nothing financed, or a payment of one   *)
(* cent or less) it is zero in every year.                                 *)
C16_LoanPaymentOverCent ==
    CashFlowMade =>
        IF PaymentOverCent
        THEN /\ 0 - PaymentSize[1] < 0
             /\ LoanColumnIs(0 - PaymentSize[1])
        ELSE LoanColumnIs(0)

\* a financed amount so small that its payment is under one cent
C16_Witness ==
    /\ CashFlowMade
    /\ hpm.pct_financed > 0
    /\ PaymentSize[1] > 0
    /\ ~PaymentOverCent
    /\ LoanColumnIs(0)

----------------------------------------------------------------------------
(* C17: cum_disc_cash_flow of year n is the sum over the years k = 0..n of *)
(* cash_flow[k] / (1 + discount_rate)^k, and summary['npv'] is that sum    *)
(* over the whole series, the cum_disc_cash_flow of year hp_life.          *)
C17_DiscountedCashFlow ==
    CashFlowMade =>
        /\ \A n \in 0..hpm.hp_life :
               RowOf("cum_disc_cash_flow", n)
                   = SumSeq([k \in 1..(n + 1) |-> Discounted(k - 1)])
        /\ hpm.econ.npv = RowOf("cum_disc_cash_flow", hpm.hp_life)

\* a table of the longest life with an outlay in year 0 and a net benefit
\* in every later year, which discounting makes smaller
C17_Witness ==
    /\ CashFlowMade
    /\ hpm.hp_life = MaxLife
    /\ hpm.discount_rate > 0
    /\ RowOf("cash_flow", 0) < 0
    /\ \A n \in 1..hpm.hp_life :
           /\ RowOf("cash_flow", n) > 0
           /\ Discounted(n) < RowOf("cash_flow", n)
    /\ hpm.econ.npv # SumSeq(hpm.df_cash_flow.cash_flow)

----------------------------------------------------------------------------
(* C18: when the cash-flow series never changes sign, summary['irr'] is    *)
(* nan and calc_cash_flow raises no exception.                             *)
C18_IrrUndefinedWithoutSignChange ==
    (hpm.called /\ PassesValidation) =>
        /\ hpm.exception = "none"
        /\ NeverChangesSign(hpm.df_cash_flow.cash_flow) => hpm.econ.irr = NaN

\* an outlay in year 0 followed by a net cost in every later year
C18_Witness ==
    /\ CashFlowMade
    /\ RowOf("cash_flow", 0) < 0
    /\ \A n \in 1..hpm.hp_life : RowOf("cash_flow", n) < 0
    /\ hpm.hp_life = MaxLife
    /\ hpm.econ.irr = NaN

----------------------------------------------------------------------------
(* C19: summary['fuel_price_incremental'] and                              *)
(* summary['elec_rate_incremental'] are the annual dollar change divided   *)
(* by the annual usage change, and each is nan when its own usage change   *)
(* is zero; no exception is raised.                                        *)
C19_IncrementalPrices ==
    (hpm.called /\ PassesValidation) =>
        /\ hpm.exception = "none"
        /\ hpm.econ.fuel_price_incremental
               = IncrementalPrice(AnnualChange("secondary_fuel_dol"),
                                  AnnualChange("secondary_fuel_units"))
        /\ hpm.econ.elec_rate_incremental
               = IncrementalPrice(AnnualChange("elec_dol"),
                                  AnnualChange("elec_kwh"))

----------------------------------------------------------------------------
(* Vocabulary of the input validation claims *)

RangeOf(seq) == {seq[i] : i \in DOMAIN seq}

RequiredFields == {"bldg_floor_area", "capital_cost", "loan_term", "hp_life"}
NumberFields == {"bldg_floor_area", "capital_cost", "elec_rate_ez",
                 "blk1_rate", "blk2_rate", "blk3_rate", "blk4_rate"}
PositiveFields == {"bldg_floor_area", "elec_rate_ez", "blk1_kwh", "blk2_kwh",
                   "blk3_kwh", "blk4_kwh"}
RateFields == {"utility_id", "elec_rate_ez", "blk4_kwh", "blk1_rate",
               "blk2_rate", "blk3_rate", "blk4_rate"}

FieldMessages ==
    {"must be entered", "must be a number", "must be an integer number",
     "must be greater than zero"}

\* the problems of single fields: missing, not a number, not positive
FieldProblems(v) ==
    {<<f, "must be entered">> : f \in {g \in RequiredFields : v[g] = NaN}}
    \cup {<<f, "must be a number">> :
             f \in {g \in NumberFields : v[g] = Text}}
    \cup {<<f, "must be greater than zero">> :
             f \in {g \in PositiveFields :
                       v[g] # NaN /\ (v[g] = Text \/ v[g] <= 0)}}

LoanProblem(v) == v.loan_term > v.hp_life

\* the rate input in use names no utility, has no rate, has no empty last
\* block limit, or has a block without a rate up to the first empty limit
RateProblem(v) ==
    LET limits == <<v.blk1_kwh, v.blk2_kwh, v.blk3_kwh, v.blk4_kwh>>
        rates == <<v.blk1_rate, v.blk2_rate, v.blk3_rate, v.blk4_rate>>
    IN  \/ v.elec_input = "util" /\ v.utility_id = NaN
        \/ v.elec_input = "ez" /\ v.elec_rate_ez = NaN
        \/ /\ v.elec_input = "adv"
           /\ \/ \A i \in 1..4 : limits[i] # NaN
              \/ \E i \in 1..4 :
                     /\ rates[i] = NaN
                     /\ \A k \in 1..(i - 1) : limits[k] # NaN

IsLoanError(e) == e[1] = "loan_term" /\ e[2] \notin FieldMessages
IsRateError(e) == e[1] \in RateFields /\ e[2] \notin FieldMessages

----------------------------------------------------------------------------
(* C20, as stated: every problem of the inputs (missing or non-numeric     *)
(* fields, loan term longer than the heat pump life, no utility selected,  *)
(* malformed rate blocks) is in the error list that one call returns.      *)
C20_AllErrorsTogether ==
    ui.called =>
        /\ FieldProblems(ui.input_vals) \subseteq RangeOf(ui.errors)
        /\ LoanProblem(ui.input_vals) =>
               \E e \in RangeOf(ui.errors) : IsLoanError(e)
        /\ RateProblem(ui.input_vals) =>
               \E e \in RangeOf(ui.errors) : IsRateError(e)

(* C20, amended: the errors of the per-field checks (missing, not a        *)
(* number, not greater than zero) are all returned together, each once,    *)
(* and when there is one nothing else is checked; otherwise the call       *)
(* returns only the first check that fails: the loan term against the heat *)
(* pump life, then the rate inputs; with no problem the list is empty.     *)
C20_FieldErrorsTogetherThenFirst ==
    ui.called =>
        IF FieldProblems(ui.input_vals) # {}
        THEN /\ RangeOf(ui.errors) = FieldProblems(ui.input_vals)
             /\ Len(ui.errors) = Cardinality(FieldProblems(ui.input_vals))
        ELSE IF LoanProblem(ui.input_vals)
        THEN Len(ui.errors) = 1 /\ IsLoanError(ui.errors[1])
        ELSE IF RateProblem(ui.input_vals)
        THEN Len(ui.errors) = 1 /\ IsRateError(ui.errors[1])
        ELSE ui.errors = <<>>

\* a form with problems in two fields, a loan longer than the heat pump
\* life and no usable rate input: only the field errors come back
C20_Witness ==
    /\ ui.called
    /\ \E e1, e2 \in FieldProblems(ui.input_vals) : e1[1] # e2[1]
    /\ LoanProblem(ui.input_vals)
    /\ RateProblem(ui.input_vals)
    /\ RangeOf(ui.errors) = FieldProblems(ui.input_vals)
    /\ Len(ui.errors) >= 3

----------------------------------------------------------------------------
(* C22: every schedule that inputs_to_vars accepts from the advanced block *)
(* inputs has strictly increasing block kWh limits and exactly one         *)
(* unbounded block, the last one.                                          *)
C22_AcceptedBlocksIncrease ==
    (ui.called /\ ui.errors = <<>> /\ ui.input_vals.elec_input = "adv") =>
        LET blocks == ui.vars.utility.Blocks
        IN  /\ blocks[Len(blocks)][1] = NaN
            /\ \A i \in 1..(Len(blocks) - 1) :
                   /\ blocks[i][1] # NaN
                   /\ i > 1 => blocks[i][1] > blocks[i - 1][1]

----------------------------------------------------------------------------
\* the divisor 1 + exist_kwh_per_mmbtu * 0.003412 of the simulated home, in
\* 1e-8
AuxDivisor == AuxOne + sim.exist_kwh_per_mmbtu * 3412

\* the secondary column of hour h multiplied back by the divisor
SecondaryTimesDivisor(h) ==
    MulDiv(sim.df_hourly[h].secondary_load_mmbtu, AuxDivisor, AuxOne)

(* C24: in every hour of the result table secondary_load_mmbtu times       *)
(* (1 + exist_kwh_per_mmbtu * 0.003412) equals the hour's total load less  *)
(* the heat-pump load, up to the rounding of the stored column (at most 2  *)
(* units of 63/80000 Btu/hr), and exactly when there is no auxiliary       *)
(* electricity.                                                            *)
C24_SecondaryTimesAuxIsRemainder ==
    sim.calculated =>
        \A h \in Hours :
            LET remainder == sim_loop[h].total_load
                                - sim.df_hourly[h].hp_load_mmbtu
            IN  /\ remainder - SecondaryTimesDivisor(h) \in 0..2
                /\ sim.exist_kwh_per_mmbtu = 0
                       => SecondaryTimesDivisor(h) = remainder

\* an hour with both systems working in a home with auxiliary electricity,
\* where the stored secondary column is less than the remainder
C24_Witness ==
    /\ sim.calculated
    /\ sim.exist_kwh_per_mmbtu > 0
    /\ \E h \in Hours :
           /\ sim.df_hourly[h].hp_load_mmbtu > 0
           /\ sim.df_hourly[h].secondary_load_mmbtu > 0
           /\ sim.df_hourly[h].secondary_load_mmbtu
                  < sim_loop[h].total_load - sim.df_hourly[h].hp_load_mmbtu

----------------------------------------------------------------------------
(* C27: with pct_exposed_to_hp between 0 and 1, in every hour the heat-pump *)
(* load is at least 0 and at most the smaller of the hour's total load and  *)
(* the heat pump's maximum output, and the secondary load before the        *)
(* auxiliary adjustment is at least 0.                                      *)
C27_HeatPumpLoadBounded ==
    (sim.calculated /\ sim.pct_exposed_to_hp \in 0..100) =>
        \A h \in Hours :
            /\ sim_loop[h].hp_load >= 0
            /\ sim_loop[h].hp_load <= sim_loop[h].total_load
            /\ sim_loop[h].in_hp_branch
                   => sim_loop[h].hp_load <= sim_loop[h].max_hp_output
            /\ ~sim_loop[h].in_hp_branch => sim_loop[h].hp_load = 0
            /\ sim_loop[h].secondary_load >= 0

\* an hour in which the load asked of the heat pump exceeds its maximum
\* output, so that the cap decides the heat-pump load
C27_Witness ==
    /\ sim.calculated
    /\ sim.pct_exposed_to_hp \in 0..100
    /\ \E h \in Hours :
           /\ sim_loop[h].in_hp_branch
           /\ sim_loop[h].hp_ld_wanted > sim_loop[h].max_hp_output
           /\ sim_loop[h].hp_load = sim_loop[h].max_hp_output
           /\ sim_loop[h].secondary_load > 0

----------------------------------------------------------------------------
(* C25: after run() the baseline tables it captured, df_mo_en_base and     *)
(* ann_en_base, hold the results of the simulation without the heat pump:  *)
(* they exist, hp_kwh is 0 in every month and in the year, and the later   *)
(* calculate() with the heat pump has not changed them.                    *)
C25_BaselineTablesKept ==
    hpm.ran =>
        /\ hpm.exception = "none"
        /\ DOMAIN hpm.df_mo_en_base = Months
        /\ \A m \in Months : hpm.df_mo_en_base[m].hp_kwh = 0
        /\ hpm.ann_en_base.hp_kwh = 0
        /\ hpm.df_mo_en_base
               = calculate([sim EXCEPT !.no_heat_pump_use = TRUE],
                           df_tmy).obj.df_monthly

----------------------------------------------------------------------------
\* the simulation object that run() constructs for the project
HomeOfProject ==
    HomeHeatModel_init([hpm.sim_args EXCEPT !.no_heat_pump_use = FALSE,
                                            !.ua_true_up = TrueUpOne])

\* the annual fuel use of that home simulated without the heat pump and
\* with the multiplier 1.0
UncalibratedFuelUse ==
    FuelUnits(calculate([HomeOfProject EXCEPT !.no_heat_pump_use = TRUE],
                        df_tmy).obj.ser_annual)

(* C28: when the space-heating fuel use to match equals the fuel use       *)
(* simulated with the multiplier 1.0, the calibration of run() gives the   *)
(* finite multiplier 1.0; and the ua_true_up that a run() has stored is    *)
(* always a finite number.                                                 *)
C28_DegenerateCalibrationIsOne ==
    /\ solve_ua_true_up(HomeOfProject, df_tmy, UncalibratedFuelUse)
           = TrueUpOne
    /\ hpm.ran => (hpm.exception = "none" /\ hpm.ua_true_up # NaN)

----------------------------------------------------------------------------
\* the results that calculate() leaves on a simulation object
ResultsOf(s) ==
    [df_monthly |-> s.df_monthly, ser_annual |-> s.ser_annual,
     ua_home |-> s.ua_home, ua_garage |-> s.ua_garage,
     max_hp_reached |-> s.max_hp_reached]

----------------------------------------------------------------------------
\* the reference pattern of the project's location, January and May differ
PatternOf(i) == hpm.city.avg_elec_usage[i]

AnchorsDiffer == PatternOf(1) # PatternOf(5)

\* the base case electricity of month i
BaseKwh(i) == hpm.df_mo_dol_base[i].elec_kwh

(* C26: for a reference pattern whose January and May values differ, the   *)
(* base case electricity made by calc_monthly_cash equals elec_use_jan in  *)
(* January and elec_use_may in May, and every month is the pattern scaled  *)
(* by (elec_use_jan - elec_use_may) / (pattern Jan - pattern May) and      *)
(* shifted by one amount (up to the rounding of one stored unit).          *)
C26_BaseElectricityHitsAnchors ==
    (hpm.called /\ AnchorsDiffer) =>
        /\ BaseKwh(1) = hpm.elec_use_jan
        /\ BaseKwh(5) = hpm.elec_use_may
        /\ \A i \in 1..12 :
               LET d    == PatternOf(1) - PatternOf(5)
                   want == (hpm.elec_use_jan - hpm.elec_use_may)
                              * (PatternOf(i) - PatternOf(1))
                   got  == (BaseKwh(i) - BaseKwh(1)) * d
                   gap  == IF got >= want THEN got - want ELSE want - got
               IN  gap <= (IF d > 0 THEN d ELSE 0 - d)

\* a project whose anchors differ from each other and from the pattern
C26_Witness ==
    /\ hpm.called
    /\ AnchorsDiffer
    /\ hpm.elec_use_jan # hpm.elec_use_may
    /\ hpm.elec_use_jan # Kwh(PatternOf(1))
    /\ BaseKwh(1) = hpm.elec_use_jan
    /\ BaseKwh(2) # BaseKwh(1)

----------------------------------------------------------------------------
\* the versions held by the module-level tables
TableVersions ==
    {lib.df_tmy_meta, lib.df_city, lib.df_util, lib.df_heatpumps,
     lib.df_fuel.version}

\* thread t has made the three lookups of one calculate()
LookupsDone(t) == lib.pc[t] = "done"

\* the versions that the lookups of thread t returned
VersionsRead(t) ==
    {lib.reads[t].city, lib.reads[t].hp, lib.reads[t].fuel.version}

(* C23: the reference tables are loaded once per process and never         *)
(* replaced or changed by a lookup, so that the lookups of one             *)
(* calculate(), and of calculate() calls on other threads, all return the  *)
(* dataset of the one load.                                                *)
C23_OneDatasetVersion ==
    /\ lib.loads = 1
    /\ TableVersions = {0}
    /\ lib.df_fuel.btus_float /\ lib.df_fuel.effic_list
    /\ \A t \in Threads :
           LookupsDone(t) =>
               /\ VersionsRead(t) = {0}
               /\ lib.reads[t].fuel.effic_list

----------------------------------------------------------------------------
\* the inputs that the last update_results call was given have errors
UpdateHadErrors ==
    /\ app.update_called
    /\ Len(inputs_to_vars(app.update_args).errors) > 0

(* C21: when update_results is called with input values for which          *)
(* inputs_to_vars reports an error, create_results constructs no HP_model  *)
(* and starts no run(): the call ends with the TypeError of                *)
(* the HP_model call and leaves the children of div-results as they were.  *)
C21_NoModelForInvalidInputs ==
    UpdateHadErrors =>
        /\ ~app.hp_constructed
        /\ ~app.run_started
        /\ app.exception = "TypeError"
        /\ ~app.children.computed

\* the button was clicked while the form held a loan longer than the heat
\* pump life, and update_results has run with those values
C21_Witness ==
    /\ UpdateHadErrors
    /\ app.update_args.loan_term > app.update_args.hp_life
    /\ app.n_clicks > 0
    /\ "update_results" \notin app.pending

----------------------------------------------------------------------------
====
